---- MODULE Spec2Model ----
(***************************************************************************)
(* thlog: the reconstruction loop processData() of src/src/thlog.c and the *)
(* incremental parsers parseFloat() and parseErr() of src/src/parse.c.     *)
(*                                                                         *)
(* Characters are their ASCII codes.  A C float is represented by the      *)
(* integer number of 1/Scale units it stands for (Scale = 10^MaxFracDigits)*)
(* which is exact for every token of at most MaxFracDigits fractional      *)
(* digits; the device never sends more of them in this model.  Unsigned    *)
(* accumulators keep a width: they wrap modulo 2^ULongBits / 2^UIntBits.   *)
(***************************************************************************)
EXTENDS Integers, Sequences, FiniteSets, TLC

(* ------------------------------ bounds --------------------------------- *)
\* width in bits of `unsigned long` (tPFloatCtx.integral, .fraction)
ULongBits == 7
\* width in bits of `unsigned int` (tPErrCtx.result)
UIntBits == 6
\* most fractional digits the device sends in one float token
MaxFracDigits == 2
\* most records accepted into one aggregation window
MaxCount == 2
\* last value of the wall clock, in seconds since processData() started
MaxClock == 3
\* most bytes one ser_read() call delivers
MaxRes == 1
\* largest configured update interval (cfg->intvl), in seconds
MaxIntvl == 2
\* most characters one parser consumes when it is called directly
MaxFed == 7
\* longest format string of those built from every character of TplChars
MaxTpl == 4
\* longest argument of the option -i
MaxArg == 3

(* ------------------------- program constants --------------------------- *)
CH_BEL == 7
CH_BS == 8
CH_TAB == 9
CH_LF == 10
CH_FF == 12
CH_CR == 13
CH_ESC == 27
CH_SPACE == 32
CH_HASH == 35
CH_PERCENT == 37
CH_PLUS == 43
CH_MINUS == 45
CH_DOT == 46
CH_0 == 48
CH_9 == 57
CH_COLON == 58
CH_C == 67
CH_E == 69
CH_F == 70
CH_H == 72
CH_M == 77
CH_S == 83
CH_Y == 89
CH_Z == 90
CH_BACKSLASH == 92
CH_a == 97
CH_b == 98
CH_d == 100
CH_e == 101
CH_f == 102
CH_m == 109
CH_n == 110
CH_r == 114
CH_t == 116
CH_v == 118

\* TCHAR tFmt[4]; TCHAR buf[64];
SizeofTFmt == 4
SizeofBuf == 64

\* #define DEFAULT_INTERVAL 10
DEFAULT_INTERVAL == 10

ULONG_MAX == 2^ULongBits - 1
UINT_MAX == 2^UIntBits - 1

(* ------------------------------ floats --------------------------------- *)
Pow10(n) == 10^n
Scale == Pow10(MaxFracDigits)
\* nanf(""): a value no arithmetic of the model produces
NaN == 0 - 2^30
Abs(x) == IF x < 0 THEN 0 - x ELSE x
\* (float)(n) of an unsigned integer
ToFloat(n) == n * Scale
\* (float)(fraction) / powf(10.0f, (float)(digits))
FracValue(fraction, digits) == (fraction * Scale) \div Pow10(digits)

\* the decimal value of a run of digit characters
RECURSIVE DecValue(_)
DecValue(ds) ==
  IF ds = <<>> THEN 0
  ELSE 10 * DecValue(SubSeq(ds, 1, Len(ds) - 1)) + (ds[Len(ds)] - CH_0)

(* ----------------------------- parseFloat ------------------------------ *)
IsDigit(c) == c >= CH_0 /\ c <= CH_9

\* memset(&pFloat, 0, sizeof(pFloat))
ZeroFloatCtx ==
  [state |-> "PFS_START", result |-> 0, sign |-> 0,
   integral |-> 0, fraction |-> 0, digits |-> 0]

\* ctx->integral = (ctx->integral * 10) + (unsigned long)(c - '0')
MulAddULong(old, c) == ((old * 10) + (c - CH_0)) % (ULONG_MAX + 1)

\* label onIntegral / case PFS_INTEGRAL
FloatOnIntegral(ctx, c) ==
  IF IsDigit(c)
    THEN LET new == MulAddULong(ctx.integral, c) IN
         IF new < ctx.integral
           THEN [ctx |-> [ctx EXCEPT !.integral = new, !.state = "PFS_ERROR_OVERFLOW"],
                 ret |-> 0]
           ELSE [ctx |-> [ctx EXCEPT !.integral = new], ret |-> 1]
    ELSE IF c = CH_DOT
      THEN [ctx |-> [ctx EXCEPT !.state = "PFS_FRACTION"], ret |-> 1]
      ELSE [ctx |-> [ctx EXCEPT !.state = "PFS_STOP",
                                !.result = ctx.sign * ToFloat(ctx.integral)],
            ret |-> 0]

\* FloatOnEnd that forgets the sign
FloatOnEndUnsigned(ctx) ==
  [ctx |-> [ctx EXCEPT !.state = "PFS_STOP",
                       !.result = ToFloat(ctx.integral)
                                    + FracValue(ctx.fraction, ctx.digits)],
   ret |-> 0]

\* label onEnd
FloatOnEnd(ctx) ==
  [ctx |-> [ctx EXCEPT !.state = "PFS_STOP",
                       !.result = ctx.sign * (ToFloat(ctx.integral)
                                     + FracValue(ctx.fraction, ctx.digits))],
   ret |-> 0]

\* FloatOnFraction without ctx->fraction = old
FloatOnFractionKeepsWrapped(ctx, c) ==
  IF IsDigit(c)
    THEN LET new == MulAddULong(ctx.fraction, c) IN
         IF new < ctx.fraction
           THEN [ctx |-> [ctx EXCEPT !.state = "PFS_REMAINING", !.fraction = new],
                 ret |-> 1]
           ELSE [ctx |-> [ctx EXCEPT !.fraction = new, !.digits = ctx.digits + 1],
                 ret |-> 1]
    ELSE FloatOnEnd(ctx)

\* case PFS_FRACTION
FloatOnFraction(ctx, c) ==
  IF IsDigit(c)
    THEN LET new == MulAddULong(ctx.fraction, c) IN
         IF new < ctx.fraction
           THEN [ctx |-> [ctx EXCEPT !.state = "PFS_REMAINING"], ret |-> 1]
           ELSE [ctx |-> [ctx EXCEPT !.fraction = new, !.digits = ctx.digits + 1],
                 ret |-> 1]
    ELSE FloatOnEnd(ctx)

\* case PFS_START
FloatOnStart(ctx, c) ==
  LET init == [ctx EXCEPT !.result = NaN, !.integral = 0,
                          !.fraction = 0, !.digits = 0] IN
  IF c = CH_MINUS
    THEN [ctx |-> [init EXCEPT !.state = "PFS_INTEGRAL", !.sign = 0 - 1], ret |-> 1]
    ELSE IF IsDigit(c)
      THEN FloatOnIntegral([init EXCEPT !.state = "PFS_INTEGRAL", !.sign = 1], c)
      ELSE IF c = CH_DOT
        THEN [ctx |-> [init EXCEPT !.state = "PFS_FRACTION"], ret |-> 1]
        ELSE [ctx |-> [init EXCEPT !.state = "PFS_ERROR_TOKEN"], ret |-> 0]

\* int parseFloat(tPFloatCtx * ctx, const int c)
parseFloat(ctx, c) ==
  CASE ctx.state = "PFS_START" -> FloatOnStart(ctx, c)
    [] ctx.state \in {"PFS_STOP", "PFS_ERROR_TOKEN", "PFS_ERROR_OVERFLOW"} ->
         [ctx |-> ctx, ret |-> 0]
    [] ctx.state = "PFS_INTEGRAL" -> FloatOnIntegral(ctx, c)
    [] ctx.state = "PFS_FRACTION" -> FloatOnFraction(ctx, c)
    [] ctx.state = "PFS_REMAINING" ->
         IF ~IsDigit(c) THEN FloatOnEnd(ctx) ELSE [ctx |-> ctx, ret |-> 1]

(* ------------------------------ parseErr ------------------------------- *)
\* memset(&pErr, 0, sizeof(pErr))
ZeroErrCtx == [state |-> "PES_START", result |-> 0]

\* ctx->result = (ctx->result * 10) + (unsigned int)(c - '0')
MulAddUInt(old, c) == ((old * 10) + (c - CH_0)) % (UINT_MAX + 1)

\* the literal states PES_START, PES_E__, PES_ER_, PES_ERR: one expected character
ErrExpect(ctx, c, want, next) ==
  IF c = want
    THEN [ctx |-> [ctx EXCEPT !.state = next], ret |-> 1]
    ELSE [ctx |-> [ctx EXCEPT !.state = "PES_ERROR_TOKEN"], ret |-> 0]

\* ErrOnIntegralStart that does not store the first digit
ErrOnIntegralStartDropsDigit(ctx, c) ==
  IF IsDigit(c)
    THEN [ctx |-> [ctx EXCEPT !.state = "PES_INTEGRAL", !.result = 0], ret |-> 1]
    ELSE IF c # CH_SPACE /\ c # CH_TAB
      THEN [ctx |-> [ctx EXCEPT !.state = "PES_ERROR_TOKEN"], ret |-> 0]
      ELSE [ctx |-> ctx, ret |-> 1]

\* ErrOnIntegralStart that skips a second ':' like a blank
ErrOnIntegralStartSkipsColon(ctx, c) ==
  IF IsDigit(c)
    THEN [ctx |-> [ctx EXCEPT !.state = "PES_INTEGRAL", !.result = c - CH_0], ret |-> 1]
    ELSE IF c # CH_SPACE /\ c # CH_TAB /\ c # CH_COLON
      THEN [ctx |-> [ctx EXCEPT !.state = "PES_ERROR_TOKEN"], ret |-> 0]
      ELSE [ctx |-> ctx, ret |-> 1]

\* case PES_INTEGRAL_START
ErrOnIntegralStart(ctx, c) ==
  IF IsDigit(c)
    THEN [ctx |-> [ctx EXCEPT !.state = "PES_INTEGRAL", !.result = c - CH_0], ret |-> 1]
    ELSE IF c # CH_SPACE /\ c # CH_TAB
      THEN [ctx |-> [ctx EXCEPT !.state = "PES_ERROR_TOKEN"], ret |-> 0]
      ELSE [ctx |-> ctx, ret |-> 1]

\* ErrOnIntegral without the test of ctx->result < old
ErrOnIntegralUnchecked(ctx, c) ==
  IF IsDigit(c)
    THEN [ctx |-> [ctx EXCEPT !.result = MulAddUInt(ctx.result, c)], ret |-> 1]
    ELSE [ctx |-> [ctx EXCEPT !.state = "PES_STOP"], ret |-> 0]

\* case PES_INTEGRAL
ErrOnIntegral(ctx, c) ==
  IF IsDigit(c)
    THEN LET new == MulAddUInt(ctx.result, c) IN
         IF new < ctx.result
           THEN [ctx |-> [ctx EXCEPT !.state = "PES_ERROR_OVERFLOW", !.result = UINT_MAX],
                 ret |-> 0]
           ELSE [ctx |-> [ctx EXCEPT !.result = new], ret |-> 1]
    ELSE [ctx |-> [ctx EXCEPT !.state = "PES_STOP"], ret |-> 0]

\* int parseErr(tPErrCtx * ctx, const int c)
parseErr(ctx, c) ==
  CASE ctx.state = "PES_START" ->
         ErrExpect([ctx EXCEPT !.result = 0], c, CH_E, "PES_E__")
    [] ctx.state \in {"PES_STOP", "PES_ERROR_TOKEN", "PES_ERROR_OVERFLOW"} ->
         [ctx |-> ctx, ret |-> 0]
    [] ctx.state = "PES_E__" -> ErrExpect(ctx, c, CH_r, "PES_ER_")
    [] ctx.state = "PES_ER_" -> ErrExpect(ctx, c, CH_r, "PES_ERR")
    [] ctx.state = "PES_ERR" -> ErrExpect(ctx, c, CH_COLON, "PES_INTEGRAL_START")
    [] ctx.state = "PES_INTEGRAL_START" -> ErrOnIntegralStart(ctx, c)
    [] ctx.state = "PES_INTEGRAL" -> ErrOnIntegral(ctx, c)

(* ------------------------------ parseFmt ------------------------------- *)
\* memset(&pFmt, 0, sizeof(pFmt)); flags is the set of the PFMTF_ bits that are set
ZeroFmtCtx ==
  [state |-> "PFMTS_START", flags |-> {}, width |-> 0, precision |-> 0,
   type |-> 0, subType |-> 0]

\* the case labels of onType that stop the directive, other than '%':
\* a A b B c C d D e E F g G h H I j k l m M n O p P r R s S t T u U V w W x X y Y z Z
FmtTypeLetters ==
  {
    65, 66, 67, 68, 69, 70, 71, 72, 73, 77, 79, 80, 82, 83, 84, 85, 86, 87,
    88, 89, 90, 97, 98, 99, 100, 101, 103, 104, 106, 107, 108, 109, 110,
    112, 114, 115, 116, 117, 119, 120, 121, 122 }

\* label onType / case PFMTS_TYPE
FmtOnType(ctx, c) ==
  IF c = CH_PERCENT \/ c \in FmtTypeLetters
    THEN [ctx |-> [ctx EXCEPT !.state = "PFMTS_STOP", !.type = c], ret |-> 0]
    ELSE IF c = CH_v
      THEN [ctx |-> [ctx EXCEPT !.state = "PFMTS_SUBTYPE", !.type = c], ret |-> 1]
      ELSE [ctx |-> [ctx EXCEPT !.state = "PFMTS_ERROR_TOKEN", !.type = c], ret |-> 0]

\* case PFMTS_START
FmtOnStart(ctx, c) ==
  IF c = CH_PERCENT
    THEN [ctx |-> [state |-> "PFMTS_FLAG", flags |-> {}, width |-> 0,
                   precision |-> 0, type |-> 0, subType |-> 0],
          ret |-> 1]
    ELSE [ctx |-> [ctx EXCEPT !.state = "PFMTS_ERROR_TOKEN"], ret |-> 0]

\* the flag characters of a directive
FmtFlagChars == {CH_MINUS, CH_PLUS, CH_0, CH_SPACE, CH_HASH}

\* ctx->flags = (tPFmtFlag)(ctx->flags | flag)
FmtSetFlag(ctx, flag) == [ctx |-> [ctx EXCEPT !.flags = ctx.flags \cup {flag}], ret |-> 1]

\* case PFMTS_FLAG
FmtOnFlag(ctx, c) ==
  CASE c = CH_MINUS -> FmtSetFlag(ctx, "PFMTF_LEFT_ALIGN")
    [] c = CH_PLUS -> FmtSetFlag(ctx, "PFMTF_SIGN")
    [] c = CH_0 -> FmtSetFlag(ctx, "PFMTF_ZERO")
    [] c = CH_SPACE -> FmtSetFlag(ctx, "PFMTF_BLANK")
    [] c = CH_HASH -> FmtSetFlag(ctx, "PFMTF_HASHTAG")
    [] c = CH_DOT -> [ctx |-> [ctx EXCEPT !.state = "PFMTS_PRECISION_START"], ret |-> 1]
    [] OTHER ->
         IF c >= CH_0 + 1 /\ c <= CH_9
           THEN [ctx |-> [ctx EXCEPT !.state = "PFMTS_WIDTH", !.width = c - CH_0],
                 ret |-> 1]
           ELSE FmtOnType([ctx EXCEPT !.state = "PFMTS_TYPE"], c)

\* FmtOnWidth that consumes the character ending the width without reading it
FmtOnWidthDiscardsEnd(ctx, c) ==
  IF IsDigit(c)
    THEN LET new == MulAddUInt(ctx.width, c) IN
         IF new < ctx.width
           THEN [ctx |-> [ctx EXCEPT !.state = "PFMTS_ERROR_OVERFLOW",
                                     !.width = UINT_MAX],
                 ret |-> 0]
           ELSE [ctx |-> [ctx EXCEPT !.width = new], ret |-> 1]
    ELSE [ctx |-> [ctx EXCEPT !.state = "PFMTS_TYPE"], ret |-> 1]

\* case PFMTS_WIDTH
FmtOnWidth(ctx, c) ==
  IF IsDigit(c)
    THEN LET new == MulAddUInt(ctx.width, c) IN
         IF new < ctx.width
           THEN [ctx |-> [ctx EXCEPT !.state = "PFMTS_ERROR_OVERFLOW",
                                     !.width = UINT_MAX],
                 ret |-> 0]
           ELSE [ctx |-> [ctx EXCEPT !.width = new], ret |-> 1]
    ELSE IF c = CH_DOT
      THEN [ctx |-> [ctx EXCEPT !.state = "PFMTS_PRECISION_START"], ret |-> 1]
      ELSE FmtOnType([ctx EXCEPT !.state = "PFMTS_TYPE"], c)

\* case PFMTS_PRECISION_START
FmtOnPrecisionStart(ctx, c) ==
  IF IsDigit(c)
    THEN [ctx |-> [ctx EXCEPT !.state = "PFMTS_PRECISION", !.precision = c - CH_0],
          ret |-> 1]
    ELSE FmtOnType([ctx EXCEPT !.state = "PFMTS_TYPE"], c)

\* case PFMTS_PRECISION
FmtOnPrecision(ctx, c) ==
  IF IsDigit(c)
    THEN LET new == MulAddUInt(ctx.precision, c) IN
         IF new < ctx.precision
           THEN [ctx |-> [ctx EXCEPT !.state = "PFMTS_ERROR_OVERFLOW",
                                     !.precision = UINT_MAX],
                 ret |-> 0]
           ELSE [ctx |-> [ctx EXCEPT !.precision = new], ret |-> 1]
    ELSE FmtOnType([ctx EXCEPT !.state = "PFMTS_TYPE"], c)

\* FmtOnSubType that takes any subtype character
FmtOnSubTypeAny(ctx, c) ==
  [ctx |-> [ctx EXCEPT !.state = "PFMTS_STOP", !.subType = c], ret |-> 0]

\* case PFMTS_SUBTYPE
FmtOnSubType(ctx, c) ==
  IF c \in {CH_C, CH_F, CH_H}
    THEN [ctx |-> [ctx EXCEPT !.state = "PFMTS_STOP", !.subType = c], ret |-> 0]
    ELSE [ctx |-> [ctx EXCEPT !.state = "PFMTS_ERROR_TOKEN", !.subType = c], ret |-> 0]

\* parseFmt that begins a new directive when it is called in PFMTS_STOP
parseFmtRestartsAfterStop(ctx, c) ==
  CASE ctx.state \in {"PFMTS_START", "PFMTS_STOP"} -> FmtOnStart(ctx, c)
    [] ctx.state \in {"PFMTS_ERROR_TOKEN", "PFMTS_ERROR_OVERFLOW"} ->
         [ctx |-> ctx, ret |-> 0]
    [] ctx.state = "PFMTS_FLAG" -> FmtOnFlag(ctx, c)
    [] ctx.state = "PFMTS_WIDTH" -> FmtOnWidth(ctx, c)
    [] ctx.state = "PFMTS_PRECISION_START" -> FmtOnPrecisionStart(ctx, c)
    [] ctx.state = "PFMTS_PRECISION" -> FmtOnPrecision(ctx, c)
    [] ctx.state = "PFMTS_TYPE" -> FmtOnType(ctx, c)
    [] ctx.state = "PFMTS_SUBTYPE" -> FmtOnSubType(ctx, c)

\* int parseFmt(tPFmtCtx * ctx, const int c)
parseFmt(ctx, c) ==
  CASE ctx.state = "PFMTS_START" -> FmtOnStart(ctx, c)
    [] ctx.state \in {"PFMTS_STOP", "PFMTS_ERROR_TOKEN", "PFMTS_ERROR_OVERFLOW"} ->
         [ctx |-> ctx, ret |-> 0]
    [] ctx.state = "PFMTS_FLAG" -> FmtOnFlag(ctx, c)
    [] ctx.state = "PFMTS_WIDTH" -> FmtOnWidth(ctx, c)
    [] ctx.state = "PFMTS_PRECISION_START" -> FmtOnPrecisionStart(ctx, c)
    [] ctx.state = "PFMTS_PRECISION" -> FmtOnPrecision(ctx, c)
    [] ctx.state = "PFMTS_TYPE" -> FmtOnType(ctx, c)
    [] ctx.state = "PFMTS_SUBTYPE" -> FmtOnSubType(ctx, c)

(* ---------------------------- processData ------------------------------ *)
VARIABLES
  pc,              \* position of processData(): "while", "read", "for", "done"
  signalReceived,  \* static volatile int signalReceived
  verbose,         \* static int verbose
  intvl,           \* cfg->intvl
  pState,          \* field cycle ST_TEMP, ST_RH, ST_SUM
  temp, rh,        \* fields of the record being assembled
  tempSum, rhSum,  \* aggregation window: sums
  valueCount,      \* aggregation window: accepted records
  pFloat, pErr,    \* parser contexts
  intvlStart,      \* start of the aggregation window
  res, i,          \* result of ser_read() and index of the byte loop
  ret,             \* return value of processData() ("none" while it runs)
  ferr, fout,      \* what the last step wrote to ferr / fout
  clock,           \* environment: wall clock read by time()
  env,             \* environment: what the device sends and how long the run lasts
  chunk, wire,     \* environment: the chunk being sent, and its bytes still to come
  lineStart,       \* history: chunk began at stream start or right after CR/LF
  emits,           \* history: when each line was rendered, and lastEmpty then
  lastEmpty,       \* history: clock value of the last check of an empty window
  errno,           \* errno as ser_read() left it
  sent,            \* environment: chunks a device of finite output has begun
  pFmt,            \* format parser context (tPFmtCtx)
  fed,             \* parser calls: the characters the parser has consumed
  pArg, pRet,      \* parser calls: argument c and return value of the last call
  before,          \* history: what the parser consumed before its state was set to START
  fmt,             \* printData(): the format string
  ptr, start,      \* printData(): offsets into fmt of the scan and of the pending literal
  last, esc,       \* printData(): previous character, escape in progress
  timeInfo,        \* environment: the type letters _tcsftime() has no text for
  trace,           \* history: what each write of printData() was made from
  optarg,          \* _tmain(): the argument of the option -i
  strNum           \* _tmain(): offset in optarg where _tcstol() stopped (-1: not called)

vars == <<pc, signalReceived, verbose, intvl, pState, temp, rh, tempSum, rhSum,
          valueCount, pFloat, pErr, intvlStart, res, i, ret, ferr, fout, clock,
          env, chunk, wire, lineStart, emits, lastEmpty, errno, sent,
          pFmt, fed, pArg, pRet, before, fmt, ptr, start, last, esc, timeInfo,
          trace, optarg, strNum>>

\* what only direct calls of the parsers change
parserVars == <<pFmt, fed, pArg, pRet, before>>

\* what only a call of printData() on its own changes
renderVars == <<fmt, ptr, start, last, esc, timeInfo, trace>>

\* what only the option handling of _tmain() changes
mainVars == <<optarg, strNum>>

\* no option -i was given
MainIdle == optarg = <<>> /\ strNum = 0 - 1

\* no format string is being scanned
RenderIdle ==
  /\ fmt = <<>> /\ ptr = 0 /\ start = 0 /\ last = 0 /\ esc = 0
  /\ timeInfo = {} /\ trace = <<>>

\* const int c = (int)(inBuf[i]): the byte of the latest loop iteration (-1: none)
LastByte == IF chunk = <<>> THEN 0 - 1 ELSE chunk[Len(chunk) - Len(wire)]

\* the locals of processData() the byte loop works on
Locals ==
  [pState |-> pState, temp |-> temp, rh |-> rh, tempSum |-> tempSum,
   rhSum |-> rhSum, valueCount |-> valueCount, pFloat |-> pFloat, pErr |-> pErr,
   err |-> <<>>]

Msg(m, arg) == [msg |-> m, arg |-> arg]

\* if (verbose > 0) _ftprintf(ferr, ...)
Report(L, m, arg) ==
  IF verbose > 0 THEN [L EXCEPT !.err = Append(L.err, Msg(m, arg))] ELSE L

\* ErrStep without the memset() of the two error cases
ErrStepKeepsError(L, ch) ==
  LET e == parseErr(L.pErr, ch).ctx IN
  IF e.state = "PES_STOP"
    THEN [Report(L, "MSGT_ERR_REMOTE_VALUE", e.result) EXCEPT !.pErr = ZeroErrCtx]
    ELSE [L EXCEPT !.pErr = e]

\* parseErr(&pErr, c); switch (pErr.state) ...
ErrStep(L, ch) ==
  LET e == parseErr(L.pErr, ch).ctx IN
  IF e.state = "PES_STOP"
    THEN [Report(L, "MSGT_ERR_REMOTE_VALUE", e.result) EXCEPT !.pErr = ZeroErrCtx]
    ELSE IF e.state \in {"PES_ERROR_TOKEN", "PES_ERROR_OVERFLOW"}
      THEN [L EXCEPT !.pErr = ZeroErrCtx]
      ELSE [L EXCEPT !.pErr = e]

\* ChecksumOk without fabsf()
ChecksumOkNoAbs(t, h, sum) == ~((t + h - sum) * 1000 > Scale)

\* !(fabsf(temp + rh - sum) > 0.001f)
ChecksumOk(t, h, sum) == ~(Abs(t + h - sum) * 1000 > Scale)

\* Accumulate adding the temperature to both sums
AccumulateTempTwice(L) ==
  [L EXCEPT !.tempSum = L.tempSum + L.temp, !.rhSum = L.rhSum + L.temp,
            !.valueCount = L.valueCount + 1]

\* tempSum += temp; rhSum += rh; valueCount++
Accumulate(L) ==
  [L EXCEPT !.tempSum = L.tempSum + L.temp, !.rhSum = L.rhSum + L.rh,
            !.valueCount = L.valueCount + 1]

\* case PFS_STOP: switch (pState) ...
FieldDone(L, result) ==
  CASE L.pState = "ST_TEMP" -> [L EXCEPT !.temp = result, !.pState = "ST_RH"]
    [] L.pState = "ST_RH" -> [L EXCEPT !.rh = result, !.pState = "ST_SUM"]
    [] L.pState = "ST_SUM" ->
         LET M == [L EXCEPT !.pState = "ST_TEMP"] IN
         IF ChecksumOk(L.temp, L.rh, result)
           THEN Accumulate(M)
           ELSE Report(M, "MSGT_ERR_REMOTE_CHECKSUM", 0)

\* ReinitValueParser without pState = ST_TEMP
ReinitValueParserKeepsCycle(L, pOk) ==
  IF pOk = 0 THEN [L EXCEPT !.pFloat = ZeroFloatCtx] ELSE L

\* if (pOk == 0) { memset(&pFloat, 0, sizeof(pFloat)); pState = ST_TEMP; }
ReinitValueParser(L, pOk) ==
  IF pOk = 0 THEN [L EXCEPT !.pFloat = ZeroFloatCtx, !.pState = "ST_TEMP"] ELSE L

\* int pOk = parseFloat(&pFloat, c); switch (pFloat.state) ... ; if (pOk == 0) ...
FloatStep(L, ch) ==
  LET p == parseFloat(L.pFloat, ch)
      f == p.ctx
  IN
  IF f.state = "PFS_STOP"
    THEN ReinitValueParser(
           [FieldDone(L, f.result) EXCEPT !.pFloat = ZeroFloatCtx, !.pErr = ZeroErrCtx], 1)
    ELSE IF f.state \in {"PFS_ERROR_TOKEN", "PFS_ERROR_OVERFLOW"}
      THEN ReinitValueParser([L EXCEPT !.pFloat = f], 0)
      ELSE ReinitValueParser([L EXCEPT !.pFloat = f], p.ret)

\* LineEnd that takes only the line feed for a line end
LineEndOnlyLF(L, ch) ==
  IF ch = CH_LF
    THEN [L EXCEPT !.pFloat = ZeroFloatCtx, !.pErr = ZeroErrCtx, !.pState = "ST_TEMP"]
    ELSE L

\* LineEnd without pState = ST_TEMP
LineEndKeepsCycle(L, ch) ==
  IF ch = CH_CR \/ ch = CH_LF
    THEN [L EXCEPT !.pFloat = ZeroFloatCtx, !.pErr = ZeroErrCtx]
    ELSE L

\* if (c == '\r' || c == '\n') ...
LineEnd(L, ch) ==
  IF ch = CH_CR \/ ch = CH_LF
    THEN [L EXCEPT !.pFloat = ZeroFloatCtx, !.pErr = ZeroErrCtx, !.pState = "ST_TEMP"]
    ELSE L

\* the body of for (ssize_t i = 0; i < res; i++)
ForBody(L, ch) == LineEnd(FloatStep(ErrStep(L, ch), ch), ch)

(* ----------------------------- environment ----------------------------- *)
Digit(d) == CH_0 + d
\* the chunks of a device that sends single bytes of the alphabet A in any order
Singles(A) == {<<b>> : b \in A}

\* a run's environment: the device sends chunks of `chunks` back to back, the
\* clock stops at `horizon`, the verbosity is `verbose`, `signals` signals arrive;
\* `budget` is the number of chunks the device sends before it falls silent
\* (-1: it never does)
Environment(chunks, horizon, v, signals) ==
  [chunks |-> chunks, horizon |-> horizon, verbose |-> v, signals |-> signals,
   budget |-> 0 - 1]

\* devices that send arbitrary bytes of a small alphabet, in any order
ByteEnvs ==
  { Environment(Singles(A), 0, 1, 0) :
      A \in { {Digit(0), CH_MINUS, CH_DOT, CH_TAB, CH_CR},
              {Digit(7), CH_E, CH_r, CH_COLON, CH_SPACE, CH_LF} } }

\* a token and the byte that ends it
Tok(digits, term) == digits \o <<term>>

\* devices that send whole float tokens, in any order
TokenEnvs ==
  { Environment(T, 0, 1, 0) :
      T \in { { Tok(<<Digit(7)>>, CH_TAB), Tok(<<Digit(0)>>, CH_TAB),
                Tok(<<Digit(7)>>, CH_LF), Tok(<<Digit(0)>>, CH_LF) },
              { Tok(<<CH_MINUS, Digit(7)>>, CH_TAB), Tok(<<Digit(7)>>, CH_TAB),
                Tok(<<Digit(0)>>, CH_LF), <<CH_TAB>> },
              { Tok(<<Digit(0), CH_DOT, Digit(5)>>, CH_TAB),
                Tok(<<CH_DOT, Digit(5)>>, CH_TAB), Tok(<<Digit(0)>>, CH_LF),
                Tok(<<Digit(0), CH_DOT, Digit(7), Digit(7), Digit(7)>>, CH_TAB) } } }

\* temperature <TAB> humidity <TAB> checksum <LF>, each with one fractional digit
RecordLine(t, h, s) ==
  <<Digit(t \div 10), Digit(t % 10), CH_DOT, Digit(0), CH_TAB,
    Digit(h \div 10), Digit(h % 10), CH_DOT, Digit(0), CH_TAB,
    Digit(s \div 10), Digit(s % 10), CH_DOT, Digit(0), CH_LF>>

\* devices that send whole record lines, while the clock runs and a signal may come
LineEnvs ==
  { Environment({RecordLine(20, 50, 70), RecordLine(20, 50, 99)}, MaxClock, 1, 1) }

\* Err:<digits> and the byte that ends it
ErrLine(digits, term) == <<CH_E, CH_r, CH_r, CH_COLON>> \o Tok(digits, term)

\* devices that send error lines, also in the middle of a line
ErrEnvs ==
  { Environment({ ErrLine(<<Digit(4), Digit(2)>>, CH_LF),
                  ErrLine(<<Digit(7)>>, CH_TAB),
                  ErrLine(<<Digit(0), Digit(9)>>, CH_CR),
                  ErrLine(<<Digit(7), Digit(0), Digit(0)>>, CH_LF),
                  ErrLine(<<Digit(9), Digit(9), Digit(9)>>, CH_LF),
                  <<CH_E>>, Tok(<<Digit(7)>>, CH_TAB) }, 0, 1, 0) }

Envs == ByteEnvs \cup TokenEnvs \cup LineEnvs \cup ErrEnvs

\* a device that sends MaxCount valid record lines and then falls silent, while
\* the clock runs and a signal may come
LiveEnvs ==
  { [Environment({RecordLine(20, 50, 70)}, MaxIntvl, 1, 1) EXCEPT !.budget = MaxCount] }

\* the device sends at most MaxFracDigits fractional digits per token and the
\* window of the model holds at most MaxCount records
DeviceMaySend(ch) ==
  /\ parseFloat(pFloat, ch).ctx.digits <= MaxFracDigits
  /\ ForBody(Locals, ch).valueCount <= MaxCount

(* ------------------------------- actions ------------------------------- *)
\* the state in which processData() starts, with an environment of E
InitWith(E) ==
  /\ env \in E
  /\ pc = "while"
  /\ signalReceived = 0
  /\ verbose = env.verbose
  /\ intvl \in 1..MaxIntvl
  /\ pState = "ST_TEMP"
  /\ temp = 0 /\ rh = 0
  /\ tempSum = 0 /\ rhSum = 0 /\ valueCount = 0
  /\ pFloat = ZeroFloatCtx /\ pErr = ZeroErrCtx
  /\ intvlStart = 0
  /\ res = 0 /\ i = 0
  /\ ret = "none"
  /\ clock = 0
  /\ ferr = <<>> /\ fout = <<>>
  /\ chunk = <<>> /\ wire = <<>> /\ lineStart = TRUE
  /\ emits = <<>> /\ lastEmpty = 0 - 1
  /\ errno = "0" /\ sent = 0
  /\ pFmt = ZeroFmtCtx /\ fed = <<>> /\ pArg = 0 - 1 /\ pRet = 1
  /\ before = <<>>
  /\ RenderIdle
  /\ MainIdle

Init == InitWith(Envs)

\* WhileTest that does not look at signalReceived
WhileTestIgnoresSignal ==
  /\ pc = "while"
  /\ pc' = "read" /\ ret' = ret
  /\ ferr' = <<>> /\ fout' = <<>>
  /\ UNCHANGED <<signalReceived, verbose, intvl, pState, temp, rh, tempSum, rhSum,
                 valueCount, pFloat, pErr, intvlStart, res, i, clock,
                 env, chunk, wire, lineStart, emits, lastEmpty, errno, sent,
                 parserVars, renderVars, mainVars>>

\* while (signalReceived == 0) ... return EXIT_SUCCESS
WhileTest ==
  /\ pc = "while"
  /\ IF signalReceived = 0
       THEN pc' = "read" /\ ret' = ret
       ELSE pc' = "done" /\ ret' = "EXIT_SUCCESS"
  /\ ferr' = <<>> /\ fout' = <<>>
  /\ UNCHANGED <<signalReceived, verbose, intvl, pState, temp, rh, tempSum, rhSum,
                 valueCount, pFloat, pErr, intvlStart, res, i, clock,
                 env, chunk, wire, lineStart, emits, lastEmpty, errno, sent,
                 parserVars, renderVars, mainVars>>

\* the bytes a read can still get: any number from a device that never falls
\* silent, else the rest of the chunk and one byte at least of every chunk to come
Available ==
  IF env.budget < 0 THEN MaxRes ELSE Len(wire) + (env.budget - sent)

\* errno = 0; res = ser_read(...): some bytes arrived (or none within the timeout)
SerRead ==
  /\ pc = "read"
  /\ \E n \in 0..MaxRes : n <= Available /\ res' = n
  /\ errno' = "0"
  /\ i' = 0
  /\ pc' = "for"
  /\ ferr' = <<>> /\ fout' = <<>>
  /\ UNCHANGED <<signalReceived, verbose, intvl, pState, temp, rh, tempSum, rhSum,
                 valueCount, pFloat, pErr, intvlStart, ret, clock,
                 env, chunk, wire, lineStart, emits, lastEmpty, sent, parserVars, renderVars, mainVars>>

\* SerReadFail that goes on with the loop instead of returning
SerReadFailContinues ==
  /\ pc = "read"
  /\ ferr' = IF verbose > 0 THEN <<Msg("MSGT_ERR_REMOTE_READ", 0)>> ELSE <<>>
  /\ errno' = "EIO"
  /\ res' = 0 - 1
  /\ i' = 0
  /\ pc' = "for"
  /\ fout' = <<>>
  /\ UNCHANGED <<signalReceived, verbose, intvl, pState, temp, rh, tempSum, rhSum,
                 valueCount, pFloat, pErr, intvlStart, ret, clock,
                 env, chunk, wire, lineStart, emits, lastEmpty, sent, parserVars, renderVars, mainVars>>

\* res == -1: the read failed, with errno EINTR or another error
SerReadFail ==
  /\ pc = "read"
  /\ \E e \in {"EINTR", "EIO"} :
       /\ errno' = e
       /\ ferr' = IF verbose > 0 /\ e # "EINTR"
                    THEN <<Msg("MSGT_ERR_REMOTE_READ", 0)>> ELSE <<>>
  /\ res' = 0 - 1
  /\ signalReceived' = signalReceived + 1
  /\ ret' = "EXIT_FAILURE"
  /\ pc' = "done"
  /\ fout' = <<>>
  /\ UNCHANGED <<verbose, intvl, pState, temp, rh, tempSum, rhSum, valueCount,
                 pFloat, pErr, intvlStart, i, clock,
                 env, chunk, wire, lineStart, emits, lastEmpty, sent, parserVars, renderVars, mainVars>>

\* one iteration of the byte loop on the byte ch
ForByteOn(ch) ==
  /\ pc = "for"
  /\ i < res
  /\ LET L == ForBody(Locals, ch) IN
       /\ pState' = L.pState
       /\ temp' = L.temp /\ rh' = L.rh
       /\ tempSum' = L.tempSum /\ rhSum' = L.rhSum /\ valueCount' = L.valueCount
       /\ pFloat' = L.pFloat /\ pErr' = L.pErr
       /\ ferr' = L.err
  /\ i' = i + 1
  /\ fout' = <<>>
  /\ UNCHANGED <<pc, signalReceived, verbose, intvl, intvlStart, res, ret, clock,
                 env, emits, lastEmpty, errno, parserVars, renderVars, mainVars>>

\* the device delivers the next byte of its chunk, or of a new chunk
ForByte ==
  \E k \in (IF wire = <<>> THEN env.chunks ELSE {wire}) :
    /\ DeviceMaySend(Head(k))
    /\ (wire = <<>> /\ env.budget >= 0) => sent < env.budget
    /\ sent' = IF wire = <<>> /\ env.budget >= 0 THEN sent + 1 ELSE sent
    /\ ForByteOn(Head(k))
    /\ wire' = Tail(k)
    /\ chunk' = IF wire = <<>> THEN k ELSE chunk
    /\ lineStart' = IF wire = <<>>
                      THEN LastByte \in {0 - 1, CH_CR, CH_LF}
                      ELSE lineStart

\* FDiv dividing by the count after the increment of a further record
FDivByNext(sum, n) == [num |-> sum, den |-> n + 1]

\* tempSum / (float)valueCount: the quotient, kept as an exact fraction
FDiv(sum, n) == [num |-> sum, den |-> n]

\* IntervalElapsed one second early
IntervalElapsedEarly(now, since) == now - since + 1 >= intvl

\* difftime(now, intvlStart) >= (double)(cfg->intvl)
IntervalElapsed(now, since) == now - since >= intvl

\* printData(fout, cfg->fmt, timeInfo, meanTemp, meanRh) followed by fflush(fout):
\* the rendered line; ok is false when the renderer returns -1
printData(now, meanTemp, meanRh, ok) ==
  [time |-> now, temp |-> meanTemp, rh |-> meanRh, complete |-> ok, flushed |-> ok]

\* CheckWindow without the test of valueCount == 0
CheckWindowNoEmptyGuard(now, ok) ==
  LET keep == [tempSum |-> tempSum, rhSum |-> rhSum, valueCount |-> valueCount,
               intvlStart |-> intvlStart, out |-> <<>>, failed |-> FALSE]
  IN
  IF IntervalElapsed(now, intvlStart)
    THEN LET line == printData(now, FDiv(tempSum, valueCount),
                               FDiv(rhSum, valueCount), ok) IN
         IF ok
           THEN [tempSum |-> 0, rhSum |-> 0, valueCount |-> 0,
                 intvlStart |-> now, out |-> <<line>>, failed |-> FALSE]
           ELSE [keep EXCEPT !.out = <<line>>, !.failed = TRUE]
    ELSE keep

\* CheckWindow without intvlStart = now after the output
CheckWindowNoRestart(now, ok) ==
  LET keep == [tempSum |-> tempSum, rhSum |-> rhSum, valueCount |-> valueCount,
               intvlStart |-> intvlStart, out |-> <<>>, failed |-> FALSE]
  IN
  IF valueCount = 0
    THEN [keep EXCEPT !.intvlStart = now]
    ELSE IF IntervalElapsed(now, intvlStart)
      THEN LET line == printData(now, FDiv(tempSum, valueCount),
                                 FDiv(rhSum, valueCount), ok) IN
           IF ok
             THEN [tempSum |-> 0, rhSum |-> 0, valueCount |-> 0,
                   intvlStart |-> intvlStart, out |-> <<line>>, failed |-> FALSE]
             ELSE [keep EXCEPT !.out = <<line>>, !.failed = TRUE]
      ELSE keep

\* CheckWindow that also renders a non-empty window once a signal has arrived
CheckWindowFlushesOnSignal(now, ok) ==
  LET keep == [tempSum |-> tempSum, rhSum |-> rhSum, valueCount |-> valueCount,
               intvlStart |-> intvlStart, out |-> <<>>, failed |-> FALSE]
  IN
  IF valueCount = 0
    THEN [keep EXCEPT !.intvlStart = now]
    ELSE IF IntervalElapsed(now, intvlStart) \/ signalReceived > 0
      THEN LET line == printData(now, FDiv(tempSum, valueCount),
                                 FDiv(rhSum, valueCount), ok) IN
           IF ok
             THEN [tempSum |-> 0, rhSum |-> 0, valueCount |-> 0,
                   intvlStart |-> now, out |-> <<line>>, failed |-> FALSE]
             ELSE [keep EXCEPT !.out = <<line>>, !.failed = TRUE]
      ELSE keep

\* the window after the interval check at time now:
\* time(&now); if (valueCount == 0) ... if (difftime(...) >= ...) ...
CheckWindow(now, ok) ==
  LET keep == [tempSum |-> tempSum, rhSum |-> rhSum, valueCount |-> valueCount,
               intvlStart |-> intvlStart, out |-> <<>>, failed |-> FALSE]
  IN
  IF valueCount = 0
    THEN [keep EXCEPT !.intvlStart = now]
    ELSE IF IntervalElapsed(now, intvlStart)
      THEN LET line == printData(now, FDiv(tempSum, valueCount),
                                 FDiv(rhSum, valueCount), ok) IN
           IF ok
             THEN [tempSum |-> 0, rhSum |-> 0, valueCount |-> 0,
                   intvlStart |-> now, out |-> <<line>>, failed |-> FALSE]
             ELSE [keep EXCEPT !.out = <<line>>, !.failed = TRUE]
      ELSE keep

\* CheckInterval that goes on with the loop when printData() failed
CheckIntervalIgnoresFailure ==
  /\ pc = "for"
  /\ i >= res
  /\ \E ok \in BOOLEAN :
       LET W == CheckWindow(clock, ok) IN
         /\ tempSum' = W.tempSum /\ rhSum' = W.rhSum /\ valueCount' = W.valueCount
         /\ intvlStart' = W.intvlStart
         /\ fout' = W.out
         /\ ferr' = IF W.failed /\ verbose > 0
                      THEN <<Msg("MSGT_ERR_FMT_WRITE", 0)>> ELSE <<>>
         /\ pc' = "while"
         /\ ret' = ret
         /\ emits' = IF W.out # <<>>
                       THEN Append(emits, [time |-> clock, empty |-> lastEmpty])
                       ELSE emits
  /\ lastEmpty' = IF valueCount = 0 THEN clock ELSE lastEmpty
  /\ res' = 0 /\ i' = 0
  /\ UNCHANGED <<signalReceived, verbose, intvl, pState, temp, rh, pFloat, pErr,
                 clock, env, chunk, wire, lineStart, errno, sent, parserVars, renderVars, mainVars>>

\* the interval check that follows the byte loop of one read
CheckInterval ==
  /\ pc = "for"
  /\ i >= res
  /\ \E ok \in BOOLEAN :
       LET W == CheckWindow(clock, ok) IN
         /\ tempSum' = W.tempSum /\ rhSum' = W.rhSum /\ valueCount' = W.valueCount
         /\ intvlStart' = W.intvlStart
         /\ fout' = W.out
         /\ ferr' = IF W.failed /\ verbose > 0
                      THEN <<Msg("MSGT_ERR_FMT_WRITE", 0)>> ELSE <<>>
         /\ pc' = IF W.failed THEN "done" ELSE "while"
         /\ ret' = IF W.failed THEN "EXIT_FAILURE" ELSE ret
         /\ emits' = IF W.out # <<>>
                       THEN Append(emits, [time |-> clock, empty |-> lastEmpty])
                       ELSE emits
  /\ lastEmpty' = IF valueCount = 0 THEN clock ELSE lastEmpty
  /\ res' = 0 /\ i' = 0
  /\ UNCHANGED <<signalReceived, verbose, intvl, pState, temp, rh, pFloat, pErr,
                 clock, env, chunk, wire, lineStart, errno, sent, parserVars, renderVars, mainVars>>

\* static void handleSignal(int signum), delivered while processData() runs
handleSignal ==
  /\ pc # "done"
  /\ signalReceived < env.signals
  /\ signalReceived' = signalReceived + 1
  /\ ferr' = IF signalReceived = 0 /\ verbose > 2
               THEN <<Msg("MSGT_INFO_SIGTERM", 0)>> ELSE <<>>
  /\ fout' = <<>>
  /\ UNCHANGED <<pc, verbose, intvl, pState, temp, rh, tempSum, rhSum, valueCount,
                 pFloat, pErr, intvlStart, res, i, ret, clock,
                 env, chunk, wire, lineStart, emits, lastEmpty, errno, sent,
                 parserVars, renderVars, mainVars>>

\* the wall clock advances by one second
Tick ==
  /\ pc # "done"
  /\ clock < env.horizon
  /\ clock' = clock + 1
  /\ ferr' = <<>> /\ fout' = <<>>
  /\ UNCHANGED <<pc, signalReceived, verbose, intvl, pState, temp, rh, tempSum,
                 rhSum, valueCount, pFloat, pErr, intvlStart, res, i, ret,
                 env, chunk, wire, lineStart, emits, lastEmpty, errno, sent,
                 parserVars, renderVars, mainVars>>

Next ==
  \/ WhileTest
  \/ SerRead
  \/ SerReadFail
  \/ ForByte
  \/ CheckInterval
  \/ handleSignal
  \/ Tick

Spec == Init /\ [][Next]_vars

\* processData() keeps running: every step of the loop that can be taken is taken
\* in the end; ser_read() returns within TIMEOUT_RESOLUTION. Signals and the clock
\* are the environment's and owe nothing.
LiveInit == InitWith(LiveEnvs)
LiveSpec ==
  /\ LiveInit
  /\ [][Next]_vars
  /\ WF_vars(WhileTest)
  /\ WF_vars(SerRead \/ SerReadFail)
  /\ WF_vars(ForByte)
  /\ WF_vars(CheckInterval)

(* ------------------------ the parsers on their own ---------------------- *)
\* the characters fed to each parser
FloatChars == {CH_MINUS, CH_DOT, Digit(0), Digit(1), Digit(3), CH_TAB}
ErrChars ==
  {CH_E, CH_r, CH_COLON, CH_SPACE, CH_TAB, Digit(1), Digit(3), Digit(7), CH_LF}
FmtChars ==
  {CH_PERCENT, CH_MINUS, Digit(1), Digit(3), CH_DOT, CH_v, CH_C, CH_F, CH_H, CH_r,
   CH_COLON}

\* the states a parser leaves only by a reset of its context
FloatTerminal == {"PFS_STOP", "PFS_ERROR_TOKEN", "PFS_ERROR_OVERFLOW"}
ErrTerminal == {"PES_STOP", "PES_ERROR_TOKEN", "PES_ERROR_OVERFLOW"}
FmtTerminal == {"PFMTS_STOP", "PFMTS_ERROR_TOKEN", "PFMTS_ERROR_OVERFLOW"}

\* what processData() works on, untouched by calls of the parsers from elsewhere
loopVars ==
  <<pc, signalReceived, verbose, intvl, pState, temp, rh, tempSum, rhSum,
    valueCount, intvlStart, res, i, ret, ferr, fout, clock, env, chunk, wire,
    lineStart, emits, lastEmpty, errno, sent, renderVars, mainVars>>

\* a zeroed context of each parser; pc names the parser that is going to be called
ParserInit ==
  /\ pc \in {"parseFloat", "parseErr", "parseFmt"}
  /\ pFloat = ZeroFloatCtx /\ pErr = ZeroErrCtx /\ pFmt = ZeroFmtCtx
  /\ fed = <<>> /\ pArg = 0 - 1 /\ pRet = 1
  /\ before = <<>>
  /\ RenderIdle
  /\ MainIdle
  /\ env = Environment({}, 0, 1, 0)
  /\ signalReceived = 0 /\ verbose = 1 /\ intvl = 1
  /\ pState = "ST_TEMP" /\ temp = 0 /\ rh = 0
  /\ tempSum = 0 /\ rhSum = 0 /\ valueCount = 0 /\ intvlStart = 0
  /\ res = 0 /\ i = 0 /\ ret = "none" /\ clock = 0
  /\ ferr = <<>> /\ fout = <<>>
  /\ chunk = <<>> /\ wire = <<>> /\ lineStart = TRUE
  /\ emits = <<>> /\ lastEmpty = 0 - 1
  /\ errno = "0" /\ sent = 0

\* the record of the characters consumed: a call in a terminal state consumes none
Consumed(terminal, ch) ==
  /\ ~terminal => Len(before) + Len(fed) < MaxFed
  /\ fed' = IF terminal THEN fed ELSE Append(fed, ch)
  /\ pArg' = ch
  /\ UNCHANGED before

\* parseFloat(&pFloat, ch)
FeedFloat ==
  /\ pc = "parseFloat"
  /\ \E ch \in FloatChars :
       LET r == parseFloat(pFloat, ch) IN
         /\ r.ctx.digits <= MaxFracDigits
         /\ Consumed(pFloat.state \in FloatTerminal, ch)
         /\ pFloat' = r.ctx
         /\ pRet' = r.ret
  /\ UNCHANGED <<pErr, pFmt, loopVars>>

\* parseErr(&pErr, ch)
FeedErr ==
  /\ pc = "parseErr"
  /\ \E ch \in ErrChars :
       LET r == parseErr(pErr, ch) IN
         /\ Consumed(pErr.state \in ErrTerminal, ch)
         /\ pErr' = r.ctx
         /\ pRet' = r.ret
  /\ UNCHANGED <<pFloat, pFmt, loopVars>>

\* parseFmt(&pFmt, ch)
FeedFmt ==
  /\ pc = "parseFmt"
  /\ \E ch \in FmtChars :
       LET r == parseFmt(pFmt, ch) IN
         /\ Consumed(pFmt.state \in FmtTerminal, ch)
         /\ pFmt' = r.ctx
         /\ pRet' = r.ret
  /\ UNCHANGED <<pFloat, pErr, loopVars>>

ParserNext ==
  \/ FeedFloat
  \/ FeedErr
  \/ FeedFmt

ParserSpec == ParserInit /\ [][ParserNext]_vars

(* --------------------- a context used a second time -------------------- *)
\* ctx->state = P*_START on the context of a parser that reached a terminal
\* state: the other fields keep what the first parse left in them
Restart ==
  /\ before = <<>> /\ fed # <<>>
  /\ \/ /\ pc = "parseFloat" /\ pFloat.state \in FloatTerminal
        /\ pFloat' = [pFloat EXCEPT !.state = "PFS_START"]
        /\ UNCHANGED <<pErr, pFmt>>
     \/ /\ pc = "parseErr" /\ pErr.state \in ErrTerminal
        /\ pErr' = [pErr EXCEPT !.state = "PES_START"]
        /\ UNCHANGED <<pFloat, pFmt>>
     \/ /\ pc = "parseFmt" /\ pFmt.state \in FmtTerminal
        /\ pFmt' = [pFmt EXCEPT !.state = "PFMTS_START"]
        /\ UNCHANGED <<pFloat, pErr>>
  /\ before' = fed /\ fed' = <<>>
  /\ pArg' = 0 - 1 /\ pRet' = 1
  /\ UNCHANGED loopVars

RestartNext ==
  \/ ParserNext
  \/ Restart

RestartSpec == ParserInit /\ [][RestartNext]_vars

(* ------------------------------ printData ----------------------------- *)
\* the decimal digits of a natural number, and runs of one character
RECURSIVE NatDigits(_)
NatDigits(n) ==
  IF n < 10 THEN <<CH_0 + n>> ELSE Append(NatDigits(n \div 10), CH_0 + (n % 10))
Repeat(c, k) == [j \in 1..k |-> c]
\* the last k decimal digits of n
PadDigits(n, k) == [j \in 1..k |-> CH_0 + ((n \div Pow10(k - j)) % 10)]

\* how _ftprintf() reads a format %[flags][width][.precision]f
PfFlagEnd(b) ==
  CHOOSE k \in 2..Len(b) :
    b[k] \notin FmtFlagChars /\ \A j \in 2..(k - 1) : b[j] \in FmtFlagChars
PfWidthEnd(b) ==
  CHOOSE k \in PfFlagEnd(b)..Len(b) :
    ~IsDigit(b[k]) /\ \A j \in PfFlagEnd(b)..(k - 1) : IsDigit(b[j])
PfHasPrec(b) == b[PfWidthEnd(b)] = CH_DOT
PfPrecEnd(b) ==
  IF PfHasPrec(b)
    THEN CHOOSE k \in (PfWidthEnd(b) + 1)..Len(b) :
           ~IsDigit(b[k]) /\ \A j \in (PfWidthEnd(b) + 1)..(k - 1) : IsDigit(b[j])
    ELSE PfWidthEnd(b)
PfFlags(b) == {b[j] : j \in 2..(PfFlagEnd(b) - 1)}
PfWidth(b) == DecValue(SubSeq(b, PfFlagEnd(b), PfWidthEnd(b) - 1))
PfPrec(b) ==
  IF PfHasPrec(b) THEN DecValue(SubSeq(b, PfWidthEnd(b) + 1, PfPrecEnd(b) - 1)) ELSE 6

\* the digits of |x| with prec fractional digits, rounded to nearest, ties to even
PfBody(x, prec, alt) ==
  LET a == Abs(x)
      q == Pow10(MaxFracDigits - prec)
      n == IF prec >= MaxFracDigits THEN a
           ELSE IF 2 * (a % q) > q \/ (2 * (a % q) = q /\ (a \div q) % 2 = 1)
                  THEN a \div q + 1 ELSE a \div q
      k == IF prec >= MaxFracDigits THEN MaxFracDigits ELSE prec
  IN  NatDigits(n \div Pow10(k))
        \o (IF prec > 0 \/ alt THEN <<CH_DOT>> ELSE <<>>)
        \o PadDigits(n, k)
        \o Repeat(CH_0, IF prec > MaxFracDigits THEN prec - MaxFracDigits ELSE 0)

\* _ftprintf(fd, buf, x) for a format buf that ends in the type f
Printf(buf, x) ==
  LET flags == PfFlags(buf)
      body == PfBody(x, PfPrec(buf), CH_HASH \in flags)
      sign == IF x < 0 THEN <<CH_MINUS>>
              ELSE IF CH_PLUS \in flags THEN <<CH_PLUS>>
              ELSE IF CH_SPACE \in flags THEN <<CH_SPACE>> ELSE <<>>
      pad == IF PfWidth(buf) > Len(sign) + Len(body)
               THEN PfWidth(buf) - Len(sign) - Len(body) ELSE 0
  IN  IF CH_MINUS \in flags THEN sign \o body \o Repeat(CH_SPACE, pad)
      ELSE IF CH_0 \in flags THEN sign \o Repeat(CH_0, pad) \o body
      ELSE Repeat(CH_SPACE, pad) \o sign \o body

\* (temp * 1.8f) + 32.0f
Fahrenheit(t) == (t * 18) \div 10 + 32 * Scale

\* _tcsftime(buf, 64, tFmt, timeInfo): the text of the field tFmt names (written
\* as the code 0 followed by tFmt without its '%'), or nothing
TimeText(tFmt) ==
  IF tFmt[Len(tFmt)] \in timeInfo THEN <<>> ELSE <<0>> \o Tail(tFmt)

\* switch (c) of the escape codes; 0: c is none
EscCode(c) ==
  CASE c = CH_BACKSLASH -> CH_BACKSLASH
    [] c = CH_a -> CH_BEL
    [] c = CH_b -> CH_BS
    [] c = CH_e -> CH_ESC
    [] c = CH_f -> CH_FF
    [] c = CH_n -> CH_LF
    [] c = CH_r -> CH_CR
    [] c = CH_t -> CH_TAB
    [] OTHER -> 0

\* the locals of printData() before an iteration of its loop
Scan ==
  [start |-> start, last |-> last, esc |-> esc, pFmt |-> pFmt, res |-> res,
   out |-> <<>>, tr |-> <<>>, err |-> <<>>, ret |-> 0, ub |-> FALSE]

\* written = _ftprintf(fd, ...); res += written, with a note of what was rendered
Emit(S, kind, from, to, call, text) ==
  [S EXCEPT !.res = @ + Len(text), !.out = @ \o text,
            !.tr = Append(@, [kind |-> kind, from |-> from, to |-> to,
                              call |-> call, out |-> text])]

\* FlushLiteral without start = ptr
FlushLiteralKeepsStart(S, p) ==
  IF S.start # p
    THEN Emit(S, "literal", S.start, p - 1, <<>>, SubSeq(fmt, S.start + 1, p))
    ELSE S

\* if (start != ptr) { _ftprintf(fd, "%.*s", (int)(ptr - start), start); start = ptr; }
FlushLiteral(S, p) ==
  IF S.start # p
    THEN [Emit(S, "literal", S.start, p - 1, <<>>, SubSeq(fmt, S.start + 1, p))
            EXCEPT !.start = p]
    ELSE S

\* Fail that reports the offset of the character itself
FailAtCharacter(S, m, p) ==
  [S EXCEPT !.ret = 0 - 1,
            !.err = IF verbose > 0
                      THEN <<Msg(m, [offset |-> p,
                                     prefix |-> SubSeq(fmt, 1, p),
                                     rest |-> SubSeq(fmt, p + 1, Len(fmt))])>>
                      ELSE <<>>]

\* if (verbose > 0) _ftprintf(ferr, MSGT(m), (int)(ptr + 1 - fmt), fmt, ptr + 1); return -1;
Fail(S, m, p) ==
  [S EXCEPT !.ret = 0 - 1,
            !.err = IF verbose > 0
                      THEN <<Msg(m, [offset |-> p + 1,
                                     prefix |-> SubSeq(fmt, 1, p + 1),
                                     rest |-> SubSeq(fmt, p + 2, Len(fmt))])>>
                      ELSE <<>>]

\* res += written; start = ptr + 1; memset(&pFmt, 0, sizeof(pFmt)); last = c
DirectiveDone(S, p, c) ==
  [S EXCEPT !.start = p + 1, !.pFmt = ZeroFmtCtx, !.last = c]

\* the branch of pFmt.type == 'v'
OnValue(S, p, c) ==
  IF p >= SizeofBuf THEN Fail(S, "MSGT_ERR_FMT_LENGTH", p)
  ELSE LET buf == Append(SubSeq(fmt, S.start + 1, p - 1), CH_f) IN
       CASE S.pFmt.subType = CH_C ->
              DirectiveDone(Emit(S, "value", S.start, p, buf, Printf(buf, temp)), p, c)
         [] S.pFmt.subType = CH_F ->
              DirectiveDone(Emit(S, "value", S.start, p, buf,
                                 Printf(buf, Fahrenheit(temp))), p, c)
         [] S.pFmt.subType = CH_H ->
              DirectiveDone(Emit(S, "value", S.start, p, buf, Printf(buf, rh)), p, c)
         [] OTHER -> Fail(S, "MSGT_ERR_FMT_SYNTAX", p)

\* the branch of last == '%' || last == '#': tFmt is written past its end when
\* the directive has SizeofTFmt characters or more
OnTime(S, p, c) ==
  LET tFmt == SubSeq(fmt, S.start + 1, p + 1)
      T == [S EXCEPT !.ub = (p + 1 - S.start >= SizeofTFmt)] IN
  IF TimeText(tFmt) = <<>> THEN Fail(T, "MSGT_ERR_FMT_SYNTAX", p)
  ELSE DirectiveDone(Emit(T, "time", S.start, p, tFmt, TimeText(tFmt)), p, c)

\* OnStop without the branch of the escaped %
OnStopPercentAsTime(S, p, c) ==
  IF S.pFmt.type = CH_v THEN OnValue(S, p, c)
  ELSE IF S.last = CH_PERCENT \/ S.last = CH_HASH THEN OnTime(S, p, c)
  ELSE Fail(S, "MSGT_ERR_FMT_SYNTAX", p)

\* else if (pFmt.state == PFMTS_STOP) { ... }
OnStop(S, p, c) ==
  IF S.pFmt.type = CH_v THEN OnValue(S, p, c)
  ELSE IF S.pFmt.type = CH_PERCENT /\ S.last = CH_PERCENT
    THEN DirectiveDone(Emit(S, "percent", S.start, p, <<>>, <<CH_PERCENT>>), p, c)
  ELSE IF S.last = CH_PERCENT \/ S.last = CH_HASH THEN OnTime(S, p, c)
  ELSE Fail(S, "MSGT_ERR_FMT_SYNTAX", p)

\* if (parseFmt(&pFmt, c) != 1 && pFmt.state != PFMTS_STOP) ... else ...; last = c
OnDirective(S, p, c) ==
  LET r == parseFmt(S.pFmt, c)
      T == [S EXCEPT !.pFmt = r.ctx] IN
  IF r.ret # 1 /\ r.ctx.state # "PFMTS_STOP"
    THEN Fail(T, IF r.ctx.state = "PFMTS_ERROR_OVERFLOW"
                   THEN "MSGT_ERR_FMT_OVERFLOW" ELSE "MSGT_ERR_FMT_SYNTAX", p)
    ELSE IF r.ctx.state = "PFMTS_STOP" THEN OnStop(T, p, c)
    ELSE [T EXCEPT !.last = c]

\* if (pFmt.state == PFMTS_START) { ... } and what follows it
OnCodesAndLiterals(S, p, c) ==
  IF S.pFmt.state = "PFMTS_START"
    THEN IF c = CH_PERCENT THEN OnDirective(FlushLiteral(S, p), p, c)
         ELSE IF c = CH_BACKSLASH /\ S.esc = 0
           THEN [FlushLiteral(S, p) EXCEPT !.esc = 1]
           ELSE [S EXCEPT !.last = c]
    ELSE OnDirective(S, p, c)

\* PrintBody that drops the backslash before a character that is no escape
PrintBodyDropsBackslash(S, p, c) ==
  IF S.esc # 0
    THEN IF EscCode(c) # 0
           THEN [Emit([S EXCEPT !.last = c, !.esc = 0], "escape", p - 1, p, <<>>,
                      <<EscCode(c)>>) EXCEPT !.start = p + 1]
           ELSE OnCodesAndLiterals([S EXCEPT !.last = c, !.esc = 0, !.start = p], p, c)
    ELSE OnCodesAndLiterals(S, p, c)

\* PrintBody that treats the character after a backslash as a literal
PrintBodyNoEscapes(S, p, c) ==
  OnCodesAndLiterals([S EXCEPT !.esc = 0], p, c)

\* one iteration of for (ptr = fmt; *ptr != 0; ptr++) with c = *ptr
PrintBody(S, p, c) ==
  IF S.esc # 0
    THEN IF EscCode(c) # 0
           THEN [Emit([S EXCEPT !.last = c, !.esc = 0], "escape", p - 1, p, <<>>,
                      <<EscCode(c)>>) EXCEPT !.start = p + 1]
           ELSE OnCodesAndLiterals([S EXCEPT !.last = c, !.esc = 0], p, c)
    ELSE OnCodesAndLiterals(S, p, c)

\* what processData() and the parser calls work on, untouched by printData()
scanRest ==
  <<signalReceived, verbose, intvl, pState, temp, rh, tempSum, rhSum, valueCount,
    pFloat, pErr, intvlStart, i, clock, env, chunk, wire, lineStart, emits,
    lastEmpty, errno, sent, fed, pArg, pRet, before, fmt, timeInfo, mainVars>>

\* the loop of printData(): the character at ptr
ScanChar ==
  /\ pc = "scan" /\ ptr < Len(fmt)
  /\ LET S == PrintBody(Scan, ptr, fmt[ptr + 1]) IN
       \E smashed \in (IF S.ub THEN BOOLEAN ELSE {FALSE}) :
         /\ pFmt' = S.pFmt /\ start' = S.start /\ last' = S.last /\ esc' = S.esc
         /\ res' = S.res
         /\ fout' = fout \o S.out /\ trace' = trace \o S.tr
         /\ ferr' = S.err
         /\ IF smashed
              THEN pc' = "crashed" /\ ret' = ret /\ ptr' = ptr
              ELSE IF S.ret < 0
                THEN pc' = "returned" /\ ret' = S.ret /\ ptr' = ptr
                ELSE pc' = "scan" /\ ret' = ret /\ ptr' = ptr + 1
  /\ UNCHANGED scanRest

\* ScanEnd without the last literal
ScanEndNoFlush ==
  /\ pc = "scan" /\ ptr = Len(fmt)
  /\ ret' = res
  /\ pc' = "returned"
  /\ UNCHANGED <<pFmt, ptr, start, last, esc, res, fout, trace, ferr, scanRest>>

\* the end of the format string: the last literal, and return res
ScanEnd ==
  /\ pc = "scan" /\ ptr = Len(fmt)
  /\ LET S == FlushLiteral(Scan, ptr) IN
       /\ res' = S.res /\ start' = start
       /\ fout' = fout \o S.out /\ trace' = trace \o S.tr
       /\ ret' = S.res
  /\ pc' = "returned"
  /\ UNCHANGED <<pFmt, ptr, last, esc, ferr, scanRest>>

\* #define DEFAULT_FORMAT
DEFAULT_FORMAT ==
  <<CH_PERCENT, CH_Y, CH_MINUS, CH_PERCENT, CH_m, CH_MINUS, CH_PERCENT, CH_d,
    CH_SPACE, CH_PERCENT, CH_H, CH_COLON, CH_PERCENT, CH_M, CH_COLON, CH_PERCENT,
    CH_S, CH_BACKSLASH, CH_t, CH_PERCENT, CH_DOT, Digit(1), CH_v, CH_C,
    CH_BACKSLASH, CH_t, CH_PERCENT, CH_DOT, Digit(1), CH_v, CH_H, CH_BACKSLASH,
    CH_n>>

\* the characters of the format strings that are tried in every order: the
\* starts of a directive and of an escape, a flag, a digit, '.', the type v,
\* a letter that is a type and a subtype, one that is a type and an escape,
\* and one that is neither
TplChars ==
  {CH_PERCENT, CH_BACKSLASH, CH_HASH, Digit(1), CH_DOT, CH_v, CH_C, CH_n, CH_COLON}
ShortFormats == UNION {[1..k -> TplChars] : k \in 0..MaxTpl}

\* format strings with sensor values in them
ValueFormats ==
  { <<CH_PERCENT, CH_DOT, Digit(1), CH_v, CH_C, CH_BACKSLASH, CH_t,
      CH_PERCENT, CH_DOT, Digit(1), CH_v, CH_H, CH_BACKSLASH, CH_n>>,
    <<CH_PERCENT, CH_DOT, Digit(1), CH_v, CH_F, CH_BACKSLASH, CH_n>>,
    <<CH_PERCENT, CH_v, CH_C>>,
    <<CH_PERCENT, CH_DOT, CH_v, CH_C>>,
    <<CH_PERCENT, CH_DOT, Digit(0), CH_v, CH_F>>,
    <<CH_PERCENT, CH_MINUS, Digit(7), CH_DOT, Digit(1), CH_v, CH_C, CH_COLON>>,
    <<CH_PERCENT, CH_0, Digit(7), CH_DOT, Digit(2), CH_v, CH_C>>,
    <<CH_PERCENT, CH_PLUS, Digit(7), CH_DOT, Digit(3), CH_v, CH_H>>,
    <<CH_PERCENT, CH_SPACE, CH_HASH, CH_DOT, Digit(0), CH_v, CH_F>>,
    DEFAULT_FORMAT }

\* other format strings: %%, every escape, a subtype that does not exist,
\* calendar directives with a flag or a width, a width that overflows (in a
\* directive and in the beginning of one that the format string ends in), and a
\* %vC that ends at offset SizeofBuf - 1 and at offset SizeofBuf
OtherFormats ==
  { <<CH_PERCENT, CH_PERCENT, CH_BACKSLASH, CH_n>>,
    <<CH_BACKSLASH, CH_BACKSLASH, CH_BACKSLASH, CH_a, CH_BACKSLASH, CH_b,
      CH_BACKSLASH, CH_e, CH_BACKSLASH, CH_f, CH_BACKSLASH, CH_n,
      CH_BACKSLASH, CH_r, CH_BACKSLASH, CH_t>>,
    <<CH_PERCENT, CH_v, CH_Z, CH_BACKSLASH, CH_n>>,
    <<CH_COLON, CH_PERCENT, CH_MINUS, CH_d>>,
    <<CH_COLON, CH_PERCENT, Digit(5), CH_d>>,
    <<CH_PERCENT, Digit(5), CH_PERCENT>>,
    <<CH_PERCENT, CH_MINUS, CH_HASH, CH_d, CH_COLON>>,
    <<CH_PERCENT, Digit(1), Digit(3), Digit(1), CH_v, CH_C>>,
    <<CH_COLON, CH_PERCENT, Digit(1), Digit(3), Digit(1)>>,
    Repeat(CH_COLON, SizeofBuf - 3) \o <<CH_PERCENT, CH_v, CH_C, CH_COLON>>,
    Repeat(CH_COLON, SizeofBuf - 2) \o <<CH_PERCENT, CH_v, CH_C, CH_COLON>> }

\* printData(fd, fmt, timeInfo, temp, rh) is called; verbose is 1 or more
\* (thlog.c:114, 230).  The values are exact binary fractions, so that the
\* digits _ftprintf() prints do not depend on the rounding of a float.
RenderInit ==
  /\ pc = "scan"
  /\ \/ /\ fmt \in ShortFormats
        /\ temp = 20 * Scale /\ rh = 50 * Scale
        /\ timeInfo \in {{}, {CH_C}}
     \/ /\ fmt \in ValueFormats \cup OtherFormats
        /\ temp \in {20 * Scale, 0 - (11 * Scale) \div 2}
        /\ rh \in {50 * Scale, (197 * Scale) \div 4}
        /\ timeInfo = {}
  /\ ptr = 0 /\ start = 0 /\ last = 0 /\ esc = 0 /\ trace = <<>>
  /\ pFmt = ZeroFmtCtx /\ res = 0 /\ ret = "none"
  /\ ferr = <<>> /\ fout = <<>>
  /\ verbose = 1
  /\ signalReceived = 0 /\ intvl = 1 /\ pState = "ST_TEMP"
  /\ tempSum = 0 /\ rhSum = 0 /\ valueCount = 0 /\ intvlStart = 0
  /\ pFloat = ZeroFloatCtx /\ pErr = ZeroErrCtx
  /\ i = 0 /\ clock = 0 /\ env = Environment({}, 0, 1, 0)
  /\ chunk = <<>> /\ wire = <<>> /\ lineStart = TRUE
  /\ emits = <<>> /\ lastEmpty = 0 - 1
  /\ errno = "0" /\ sent = 0
  /\ fed = <<>> /\ pArg = 0 - 1 /\ pRet = 1 /\ before = <<>>
  /\ MainIdle

RenderNext ==
  \/ ScanChar
  \/ ScanEnd

RenderSpec == RenderInit /\ [][RenderNext]_vars

(* ------------------------- _tmain(): option -i -------------------------- *)
LONG_MAX == 2^(ULongBits - 1) - 1
LONG_MIN == 0 - 2^(ULongBits - 1)
\* size_t is as wide as unsigned long
SIZE_MAX == ULONG_MAX

\* the characters of isspace() in the "C" locale, and the decimal digits
SpaceChars == {CH_SPACE} \cup (CH_TAB..CH_CR)
DigitChars == CH_0..CH_9

\* the number of characters of s from offset k on that are in A, up to the first
\* one that is not
RECURSIVE RunLen(_, _, _)
RunLen(A, s, k) ==
  IF k < Len(s) /\ s[k + 1] \in A THEN 1 + RunLen(A, s, k + 1) ELSE 0

\* _tcstol(s, &end, 10): white space, an optional sign, decimal digits; the value
\* is kept within LONG_MIN..LONG_MAX; without a digit the value is 0 and end is s
tcstol(s) ==
  LET b == RunLen(SpaceChars, s, 0)
      signed == b < Len(s) /\ s[b + 1] \in {CH_PLUS, CH_MINUS}
      d == IF signed THEN b + 1 ELSE b
      n == RunLen(DigitChars, s, d)
      mag == DecValue(SubSeq(s, d + 1, d + n))
      v == IF signed /\ s[b + 1] = CH_MINUS THEN 0 - mag ELSE mag
  IN IF n = 0
       THEN [value |-> 0, end |-> 0]
       ELSE [value |-> IF v > LONG_MAX THEN LONG_MAX
                       ELSE IF v < LONG_MIN THEN LONG_MIN ELSE v,
             end |-> d + n]

\* (size_t)(v) of a long
ToSizeT(v) == v % (SIZE_MAX + 1)

\* case _T('i'): config.intvl = (size_t)_tcstol(optarg, &strNum, 10);
\* if (config.intvl < 1 || strNum == NULL || *strNum != 0) { ...; goto onError; }
OptInterval ==
  /\ pc = "getopt"
  /\ LET r == tcstol(optarg) IN
       /\ intvl' = ToSizeT(r.value) /\ strNum' = r.end
       /\ IF ToSizeT(r.value) < 1 \/ r.end < Len(optarg)
            THEN /\ ferr' = <<Msg("MSGT_ERR_OPT_BAD_INTERVAL", optarg)>>
                 /\ pc' = "onError"
            ELSE /\ ferr' = <<>>
                 /\ pc' = "connect"
  /\ UNCHANGED <<signalReceived, verbose, pState, temp, rh, tempSum, rhSum,
                 valueCount, pFloat, pErr, intvlStart, res, i, ret, fout, clock,
                 env, chunk, wire, lineStart, emits, lastEmpty, errno, sent,
                 parserVars, renderVars, optarg>>

\* remoteConn = ser_create(...): on NULL the error is reported and _tmain() goes
\* to onError, otherwise processData() is entered
Connect ==
  /\ pc = "connect"
  /\ \/ /\ ferr' = <<Msg("MSGT_ERR_REMOTE_CONNECT", 0)>>
        /\ pc' = "onError"
     \/ /\ ferr' = <<>>
        /\ pc' = "while"
  /\ UNCHANGED <<signalReceived, verbose, intvl, pState, temp, rh, tempSum, rhSum,
                 valueCount, pFloat, pErr, intvlStart, res, i, ret, fout, clock,
                 env, chunk, wire, lineStart, emits, lastEmpty, errno, sent,
                 parserVars, renderVars, mainVars>>

\* onError: if (ret != EXIT_SUCCESS) signalReceived++; ... return ret;
OnError ==
  /\ pc = "onError"
  /\ signalReceived' = signalReceived + 1
  /\ ret' = "EXIT_FAILURE"
  /\ pc' = "exited"
  /\ ferr' = <<>>
  /\ UNCHANGED <<verbose, intvl, pState, temp, rh, tempSum, rhSum,
                 valueCount, pFloat, pErr, intvlStart, res, i, fout, clock,
                 env, chunk, wire, lineStart, emits, lastEmpty, errno, sent,
                 parserVars, renderVars, mainVars>>

\* the characters of the arguments of -i that are tried in every order
ArgChars == {CH_SPACE, CH_PLUS, CH_MINUS, Digit(0), Digit(1), Digit(9), CH_COLON}
OptArgs == UNION {[1..n -> ArgChars] : n \in 0..MaxArg}

\* _tmain() has come to the option -i of its command line
MainInit ==
  /\ pc = "getopt"
  /\ optarg \in OptArgs /\ strNum = 0 - 1
  /\ intvl = DEFAULT_INTERVAL
  /\ env = Environment({}, 0, 1, 0)
  /\ signalReceived = 0 /\ verbose = 1
  /\ pState = "ST_TEMP" /\ temp = 0 /\ rh = 0
  /\ tempSum = 0 /\ rhSum = 0 /\ valueCount = 0 /\ intvlStart = 0
  /\ pFloat = ZeroFloatCtx /\ pErr = ZeroErrCtx /\ pFmt = ZeroFmtCtx
  /\ res = 0 /\ i = 0 /\ ret = "none" /\ clock = 0
  /\ ferr = <<>> /\ fout = <<>>
  /\ chunk = <<>> /\ wire = <<>> /\ lineStart = TRUE
  /\ emits = <<>> /\ lastEmpty = 0 - 1
  /\ errno = "0" /\ sent = 0
  /\ fed = <<>> /\ pArg = 0 - 1 /\ pRet = 1 /\ before = <<>>
  /\ RenderIdle

MainNext ==
  \/ OptInterval
  \/ Connect
  \/ OnError

MainSpec == MainInit /\ [][MainNext]_vars

(* ------------------------------- claims -------------------------------- *)
\* a step of the byte loop: it processes the byte LastByte'
ByteStep == pc = "for" /\ i' = i + 1
\* a step that is the interval check of one read
CheckStep == pc = "for" /\ pc' # "for"
\* the aggregation window without its start time
window == <<tempSum, rhSum, valueCount>>
\* the byte ch ends the third float token of a cycle and the checksum matches
CompletesValidRecord(ch) ==
  /\ pState = "ST_SUM"
  /\ parseFloat(pFloat, ch).ctx.state = "PFS_STOP"
  /\ Abs(temp + rh - parseFloat(pFloat, ch).ctx.result) * 1000 <= Scale

\* C1: a byte changes sum_temperature, sum_humidity or accepted_count only if it
\* completes the third float token of a cycle with |temp + rh - checksum| <= 0.001;
\* every other byte, a completed but failing checksum token included, leaves them.
C1_WindowOnlyOnValidRecord ==
  [][ByteStep /\ ~CompletesValidRecord(LastByte') => UNCHANGED window]_vars

\* C1 witness: a checksum token has just failed the test on a non-empty window
C1_Witness ==
  /\ pc = "for" /\ i > 0
  /\ ferr = <<Msg("MSGT_ERR_REMOTE_CHECKSUM", 0)>>
  /\ valueCount > 0 /\ tempSum > 0

\* C2: an accepted record adds 1 to accepted_count, its temperature to
\* sum_temperature and its humidity to sum_humidity; from an empty window the line
\* 20.0<TAB>50.0<TAB>70.0<LF> leaves accepted_count = 1 and the sums 20.0 / 50.0.
C2_AcceptAddsRecord ==
  [][ /\ ByteStep /\ CompletesValidRecord(LastByte') =>
           /\ valueCount' = valueCount + 1
           /\ tempSum' = tempSum + temp
           /\ rhSum' = rhSum + rh
      /\ ( /\ ByteStep /\ chunk' = RecordLine(20, 50, 70) /\ wire' = <<>>
           /\ lineStart' /\ valueCount = 0 ) =>
           /\ valueCount' = 1
           /\ tempSum' = ToFloat(20)
           /\ rhSum' = ToFloat(50) ]_vars

\* C2 witness: the example line has just been accepted as the second record
C2_Witness ==
  /\ pc = "for" /\ i > 0
  /\ chunk = RecordLine(20, 50, 70) /\ wire = <<>>
  /\ valueCount = 2 /\ tempSum = ToFloat(40) /\ rhSum = ToFloat(100)

\* C3: an interval check of an empty window renders nothing and changes nothing
\* of the program's state but window_start_time, which becomes the time of the check.
C3_EmptyWindowOnlyRestarts ==
  [][CheckStep /\ valueCount = 0 =>
       /\ fout' = <<>> /\ ferr' = <<>>
       /\ intvlStart' = clock
       /\ pc' = "while"
       /\ UNCHANGED <<tempSum, rhSum, valueCount, pState, temp, rh, pFloat, pErr,
                      signalReceived, verbose, intvl, ret>>]_vars

\* C3 witness: an empty window was checked after the interval had elapsed
C3_Witness ==
  /\ pc = "while" /\ valueCount = 0 /\ emits = <<>>
  /\ lastEmpty = clock /\ intvlStart = clock /\ clock >= intvl

\* C4 as claimed: a check before the interval has elapsed changes neither the sums,
\* the count nor window_start_time and emits nothing, whatever the count.
C4_Original ==
  [][CheckStep /\ clock - intvlStart < intvl =>
       /\ fout' = <<>>
       /\ UNCHANGED <<tempSum, rhSum, valueCount, intvlStart>>]_vars

\* C4 amended: a check before the interval has elapsed emits nothing and leaves
\* the sums and the count; it leaves window_start_time when the count is positive
\* and sets it to the time of the check when the count is zero.
C4_EarlyCheck ==
  [][CheckStep /\ clock - intvlStart < intvl =>
       /\ fout' = <<>>
       /\ UNCHANGED <<tempSum, rhSum, valueCount>>
       /\ intvlStart' = IF valueCount = 0 THEN clock ELSE intvlStart]_vars

\* C4 witness: a non-empty window was checked before its interval had elapsed
C4_Witness ==
  /\ pc = "while" /\ valueCount > 0
  /\ clock > intvlStart /\ clock - intvlStart < intvl

\* C5 as claimed: a check of a non-empty window whose interval has elapsed emits
\* one line with the means sum / count, flushes, and resets the window to
\* zero sums, zero count and the time of the check.
C5_Original ==
  [][CheckStep /\ clock - intvlStart >= intvl /\ valueCount > 0 =>
       /\ Len(fout') = 1
       /\ fout'[1].temp = [num |-> tempSum, den |-> valueCount]
       /\ fout'[1].rh = [num |-> rhSum, den |-> valueCount]
       /\ fout'[1].complete /\ fout'[1].flushed
       /\ tempSum' = 0 /\ rhSum' = 0 /\ valueCount' = 0
       /\ intvlStart' = clock]_vars

\* C5 amended: such a check invokes the renderer exactly once, with the means
\* sum / count; if the renderer succeeds the line is flushed and the window is reset
\* to zero sums, zero count and the time of the check; if it fails nothing is
\* flushed, the window is left as it was and processData() returns EXIT_FAILURE.
C5_ElapsedCheckEmits ==
  [][CheckStep /\ clock - intvlStart >= intvl /\ valueCount > 0 =>
       /\ Len(fout') = 1
       /\ fout'[1].time = clock
       /\ fout'[1].temp = [num |-> tempSum, den |-> valueCount]
       /\ fout'[1].rh = [num |-> rhSum, den |-> valueCount]
       /\ fout'[1].flushed = fout'[1].complete
       /\ IF fout'[1].complete
            THEN /\ tempSum' = 0 /\ rhSum' = 0 /\ valueCount' = 0
                 /\ intvlStart' = clock
                 /\ pc' = "while" /\ ret' = ret
            ELSE /\ UNCHANGED <<tempSum, rhSum, valueCount, intvlStart>>
                 /\ pc' = "done" /\ ret' = "EXIT_FAILURE"]_vars

\* C5 witness: the mean of two records has just been rendered and the window reset
C5_Witness ==
  /\ pc = "while" /\ Len(fout) = 1
  /\ fout[1].complete /\ fout[1].flushed
  /\ fout[1].temp = [num |-> ToFloat(40), den |-> 2]
  /\ fout[1].rh = [num |-> ToFloat(100), den |-> 2]
  /\ tempSum = 0 /\ rhSum = 0 /\ valueCount = 0 /\ intvlStart = fout[1].time

\* C6: with the clock never running backwards, a check emits at most one line,
\* two successive emissions are at least cfg->intvl seconds apart, and an emission
\* comes at least cfg->intvl seconds after the last check that saw an empty window.
C6_EmissionsSpaced ==
  /\ Len(fout) <= 1
  /\ \A k \in 1..Len(emits) :
       /\ k > 1 => emits[k].time - emits[k - 1].time >= intvl
       /\ emits[k].empty # 0 - 1 => emits[k].time - emits[k].empty >= intvl

\* C6 witness: two lines were rendered exactly one interval apart, the first one
\* exactly one interval after an empty window was seen
C6_Witness ==
  /\ Len(emits) >= 2
  /\ emits[2].time - emits[1].time = intvl
  /\ emits[1].empty >= 0 /\ emits[1].time - emits[1].empty = intvl

\* C7: after the loop has processed a carriage return or a line feed, FloatParser
\* and ErrorTokenParser are at START and the field cycle is at temperature.
C7_LineEndResynchronizes ==
  LastByte \in {CH_CR, CH_LF} =>
    /\ pFloat.state = "PFS_START"
    /\ pErr.state = "PES_START"
    /\ pState = "ST_TEMP"

\* C7 witness: the line feed that ended a temperature token has been processed
C7_Witness ==
  /\ pc = "for" /\ i > 0
  /\ chunk = Tok(<<Digit(7)>>, CH_LF) /\ wire = <<>>
  /\ temp = ToFloat(7)
  /\ pFloat.state = "PFS_START" /\ pErr.state = "PES_START" /\ pState = "ST_TEMP"

\* C8: a byte that drives FloatParser to ERROR_TOKEN or ERROR_OVERFLOW leaves it at
\* START and the field cycle at temperature, and does not change the window.
C8_FloatErrorAbandonsRecord ==
  [][ByteStep /\ parseFloat(pFloat, LastByte').ctx.state
                   \in {"PFS_ERROR_TOKEN", "PFS_ERROR_OVERFLOW"} =>
       /\ pFloat'.state = "PFS_START"
       /\ pState' = "ST_TEMP"
       /\ UNCHANGED window]_vars

\* C8 witness: a digit has overflowed the integral part of a token
C8_Witness ==
  /\ pc = "for" /\ i > 0
  /\ LastByte = Digit(7)
  /\ pFloat.state = "PFS_START" /\ pState = "ST_TEMP"

\* the digits of an error line, and what makes a chunk one
ErrDigits(k) == SubSeq(k, 5, Len(k) - 1)
IsErrLine(k) ==
  /\ Len(k) >= 6
  /\ SubSeq(k, 1, 4) = <<CH_E, CH_r, CH_r, CH_COLON>>
  /\ \A j \in 5..(Len(k) - 1) : IsDigit(k[j])
  /\ ~IsDigit(k[Len(k)])

\* C9: an error line Err:<digits> that starts the stream or follows a CR/LF byte,
\* with a value that fits, is reported once, with the decimal value of the digits,
\* at the byte after the last digit and at no earlier byte of the line; after that
\* byte ErrorTokenParser is at START; no byte of the line changes the window.
C9_ErrorLineReported ==
  [][( /\ ByteStep /\ IsErrLine(chunk') /\ lineStart'
       /\ DecValue(ErrDigits(chunk')) <= UINT_MAX ) =>
       /\ UNCHANGED window
       /\ IF wire' = <<>>
            THEN /\ ferr' = <<Msg("MSGT_ERR_REMOTE_VALUE", DecValue(ErrDigits(chunk')))>>
                 /\ pErr'.state = "PES_START"
            ELSE ferr' = <<>>]_vars

\* C9 witness: Err:42<LF> has just been reported on a non-empty line start
C9_Witness ==
  /\ pc = "for" /\ i > 0
  /\ chunk = ErrLine(<<Digit(4), Digit(2)>>, CH_LF) /\ wire = <<>> /\ lineStart
  /\ ferr = <<Msg("MSGT_ERR_REMOTE_VALUE", 42)>>
  /\ pErr.state = "PES_START"

\* C10: a failed transport read ends processData() with EXIT_FAILURE at once: the
\* step processes no byte, checks no interval and emits nothing, and no step of
\* the loop (read, byte, check) follows.
C10_ReadFailureIsFatal ==
  [][ /\ pc # "done"
      /\ (pc = "read" /\ res' = 0 - 1) =>
           /\ pc' = "done" /\ ret' = "EXIT_FAILURE"
           /\ fout' = <<>>
           /\ UNCHANGED <<pState, temp, rh, tempSum, rhSum, valueCount, pFloat,
                          pErr, intvlStart, emits>> ]_vars

\* C10 witness: a read failed with an error other than EINTR, on a non-empty window
C10_Witness ==
  /\ pc = "done" /\ res = 0 - 1 /\ ret = "EXIT_FAILURE"
  /\ ferr = <<Msg("MSGT_ERR_REMOTE_READ", 0)>>
  /\ valueCount > 0

\* C11 as claimed: when a shutdown signal has arrived and the read reports the
\* interrupted condition (-1 with errno EINTR), processData() returns EXIT_SUCCESS.
C11_Original ==
  [][(pc = "read" /\ signalReceived > 0 /\ res' = 0 - 1 /\ errno' = "EINTR") =>
       ret' = "EXIT_SUCCESS"]_vars

\* C12: signalReceived is tested before every read (a read is entered only from
\* the loop test, and only with signalReceived = 0), it never goes back to zero,
\* and once it is non-zero processData() returns.
C12_ShutdownTerminates ==
  /\ [][(pc' = "read" /\ pc # "read") => (pc = "while" /\ signalReceived = 0)]_vars
  /\ [][signalReceived' >= signalReceived]_vars
  /\ (signalReceived > 0 ~> pc = "done")

\* C12 witness: the signal came during a read that then delivered a byte, and the
\* loop test after it returned with a partial window
C12_Witness ==
  /\ pc = "done" /\ ret = "EXIT_SUCCESS" /\ signalReceived = 1
  /\ sent > 0 /\ valueCount > 0

\* C13 as claimed: no line is rendered once signalReceived is non-zero.
C13_Original == [][signalReceived > 0 => fout' = <<>>]_vars

\* C13 amended: shutdown never renders a window early. With signalReceived non-zero
\* a line is rendered only by the interval check of the read in progress and only
\* when cfg->intvl seconds have elapsed on a non-empty window; the loop test that
\* follows returns without a further read, check or line.
C13_ShutdownRendersNothingEarly ==
  [][ /\ (signalReceived > 0 /\ fout' # <<>>) =>
           /\ CheckStep
           /\ valueCount > 0 /\ clock - intvlStart >= intvl
           /\ Len(fout') = 1
      /\ (signalReceived > 0 /\ pc = "while" /\ pc' # pc) =>
           /\ pc' = "done" /\ ret' = "EXIT_SUCCESS"
           /\ fout' = <<>>
           /\ UNCHANGED <<tempSum, rhSum, valueCount, intvlStart>> ]_vars

\* C13 witness: the loop returned on a signal and left a partial window unrendered
C13_Witness ==
  /\ pc = "done" /\ ret = "EXIT_SUCCESS" /\ signalReceived > 0
  /\ valueCount > 0 /\ emits = <<>> /\ clock - intvlStart < intvl

\* C14: when printData() fails for an emission, processData() returns EXIT_FAILURE
\* in that step, and nothing (read, byte, check, line) follows the return.
C14_RenderFailureIsFatal ==
  [][ /\ pc # "done"
      /\ (CheckStep /\ fout' # <<>> /\ ~fout'[1].complete) =>
           /\ pc' = "done" /\ ret' = "EXIT_FAILURE"
           /\ Len(fout') = 1 /\ ~fout'[1].flushed ]_vars

\* C14 witness: the loop has returned because the renderer failed
C14_Witness ==
  /\ pc = "done" /\ ret = "EXIT_FAILURE"
  /\ Len(fout) = 1 /\ ~fout[1].complete
  /\ ferr = <<Msg("MSGT_ERR_FMT_WRITE", 0)>>
  /\ valueCount > 0

\* a string -?digits(.digits)? and its parts: the text after the sign, the place of
\* the dot in it (0: none), the two digit runs
Unsigned(str) == IF str # <<>> /\ str[1] = CH_MINUS THEN Tail(str) ELSE str
DotAt(b) == IF \E j \in 1..Len(b) : b[j] = CH_DOT
              THEN CHOOSE j \in 1..Len(b) : b[j] = CH_DOT /\ \A k \in 1..(j - 1) : b[k] # CH_DOT
              ELSE 0
IntRun(str) ==
  LET b == Unsigned(str) IN IF DotAt(b) = 0 THEN b ELSE SubSeq(b, 1, DotAt(b) - 1)
FracRun(str) ==
  LET b == Unsigned(str) IN IF DotAt(b) = 0 THEN <<>> ELSE SubSeq(b, DotAt(b) + 1, Len(b))
AllDigits(run) == \A j \in 1..Len(run) : IsDigit(run[j])
\* a non-empty beginning of such a string
IsDecimalPrefix(str) ==
  /\ str # <<>>
  /\ AllDigits(IntRun(str)) /\ AllDigits(FracRun(str))
  /\ DotAt(Unsigned(str)) # 1
\* such a string, complete
IsDecimal(str) ==
  /\ IsDecimalPrefix(str)
  /\ IntRun(str) # <<>>
  /\ DotAt(Unsigned(str)) # 0 => FracRun(str) # <<>>
\* neither digit run overflows its accumulator
RunsFit(str) ==
  /\ DecValue(IntRun(str)) <= ULONG_MAX
  /\ DecValue(FracRun(str)) <= ULONG_MAX
\* the decimal value of the string, in units of 1/Scale
DecimalValue(str) ==
  (IF str[1] = CH_MINUS THEN 0 - 1 ELSE 1)
    * (DecValue(IntRun(str)) * Scale
         + (DecValue(FracRun(str)) * Scale) \div Pow10(Len(FracRun(str))))

\* C15: fed from PFS_START with a string -?digits(.digits)? whose digit runs fit,
\* parseFloat() returns 1 for every character of it, and at a terminator that is
\* neither a digit nor '.' it returns 0 in PFS_STOP with result = the decimal value
\* of the string, whatever the terminator is.
C15_DecimalTokenParsed ==
  pc = "parseFloat" =>
    /\ (IsDecimalPrefix(fed) /\ RunsFit(fed)) =>
         /\ pRet = 1
         /\ pFloat.state \in {"PFS_INTEGRAL", "PFS_FRACTION"}
    /\ (/\ Len(fed) > 1
        /\ IsDecimal(SubSeq(fed, 1, Len(fed) - 1))
        /\ RunsFit(SubSeq(fed, 1, Len(fed) - 1))
        /\ ~IsDigit(fed[Len(fed)]) /\ fed[Len(fed)] # CH_DOT) =>
         /\ pRet = 0
         /\ pFloat.state = "PFS_STOP"
         /\ pFloat.result = DecimalValue(SubSeq(fed, 1, Len(fed) - 1))
         /\ pFloat.result = pFloat.sign * (ToFloat(pFloat.integral)
                                + FracValue(pFloat.fraction, pFloat.digits))

\* C15 witness: -13.31<TAB> has been parsed
C15_Witness ==
  /\ pc = "parseFloat"
  /\ fed = <<CH_MINUS, Digit(1), Digit(3), CH_DOT, Digit(3), Digit(1), CH_TAB>>
  /\ pFloat.state = "PFS_STOP" /\ pRet = 0
  /\ pFloat.result = 0 - (13 * Scale + (31 * Scale) \div 100)

\* C16 as claimed: from PFS_START every character other than '-' and the digits
\* leads to PFS_ERROR_TOKEN.
C16_Original ==
  (pc = "parseFloat" /\ Len(fed) = 1 /\ fed[1] # CH_MINUS /\ ~IsDigit(fed[1])) =>
    pFloat.state = "PFS_ERROR_TOKEN"

\* the multiply-by-10-and-add of the digit ch wraps to a value below old
WrapsBelow(old, ch, max) ==
  IsDigit(ch) /\ ((old * 10) + (ch - CH_0)) % (max + 1) < old
\* the accumulating steps of the parser calls that wrap below the previous value
IntegralWraps ==
  pc = "parseFloat" /\ pFloat.state = "PFS_INTEGRAL"
    /\ WrapsBelow(pFloat.integral, pArg', ULONG_MAX)
FractionWraps ==
  pc = "parseFloat" /\ pFloat.state = "PFS_FRACTION"
    /\ WrapsBelow(pFloat.fraction, pArg', ULONG_MAX)
ErrResultWraps ==
  pc = "parseErr" /\ pErr.state = "PES_INTEGRAL"
    /\ WrapsBelow(pErr.result, pArg', UINT_MAX)
WidthWraps ==
  pc = "parseFmt" /\ pFmt.state = "PFMTS_WIDTH"
    /\ WrapsBelow(pFmt.width, pArg', UINT_MAX)
PrecisionWraps ==
  pc = "parseFmt" /\ pFmt.state = "PFMTS_PRECISION"
    /\ WrapsBelow(pFmt.precision, pArg', UINT_MAX)
\* a parser in ERROR_OVERFLOW stays there, so it never reaches STOP for the token
OverflowIsFinal ==
  /\ pFloat.state = "PFS_ERROR_OVERFLOW" => pFloat'.state = "PFS_ERROR_OVERFLOW"
  /\ pErr.state = "PES_ERROR_OVERFLOW" => pErr'.state = "PES_ERROR_OVERFLOW"
  /\ pFmt.state = "PFMTS_ERROR_OVERFLOW" => pFmt'.state = "PFMTS_ERROR_OVERFLOW"

\* C17 as claimed: a wrap below the previous partial value in any accumulator,
\* FloatParser's fraction included, gives ERROR_OVERFLOW and never STOP.
C17_Original ==
  [][ /\ IntegralWraps => pFloat'.state = "PFS_ERROR_OVERFLOW"
      /\ FractionWraps => pFloat'.state = "PFS_ERROR_OVERFLOW"
      /\ ErrResultWraps => pErr'.state = "PES_ERROR_OVERFLOW"
      /\ WidthWraps => pFmt'.state = "PFMTS_ERROR_OVERFLOW"
      /\ PrecisionWraps => pFmt'.state = "PFMTS_ERROR_OVERFLOW"
      /\ OverflowIsFinal ]_vars

\* C17 amended: such a wrap gives ERROR_OVERFLOW, and never STOP, in FloatParser's
\* integral part, ErrorTokenParser's code and DirectiveParser's width and precision;
\* in FloatParser's fractional part it gives PFS_REMAINING with the fraction and the
\* digit count as they were, and the token goes on to PFS_STOP.
C17_WrapIsOverflowError ==
  [][ /\ IntegralWraps => pFloat'.state = "PFS_ERROR_OVERFLOW" /\ pRet' = 0
      /\ FractionWraps =>
           /\ pFloat'.state = "PFS_REMAINING" /\ pRet' = 1
           /\ pFloat'.fraction = pFloat.fraction /\ pFloat'.digits = pFloat.digits
      /\ pFloat.state = "PFS_REMAINING" =>
           pFloat'.state \in {"PFS_REMAINING", "PFS_STOP"}
      /\ ErrResultWraps => pErr'.state = "PES_ERROR_OVERFLOW" /\ pRet' = 0
      /\ WidthWraps => pFmt'.state = "PFMTS_ERROR_OVERFLOW" /\ pRet' = 0
      /\ PrecisionWraps => pFmt'.state = "PFMTS_ERROR_OVERFLOW" /\ pRet' = 0
      /\ OverflowIsFinal ]_vars

\* C17 witness: the third digit of Err:131 has wrapped the error code
C17_Witness ==
  /\ pc = "parseErr"
  /\ fed = <<CH_E, CH_r, CH_r, CH_COLON, Digit(1), Digit(3), Digit(1)>>
  /\ pErr.state = "PES_ERROR_OVERFLOW" /\ pRet = 0

\* C18 as claimed: a parser in ERROR_OVERFLOW holds the representable maximum in
\* the accumulator that overflowed: FloatParser in integral, ErrorTokenParser in
\* result, DirectiveParser in width or precision.
C18_Original ==
  /\ (pc = "parseFloat" /\ pFloat.state = "PFS_ERROR_OVERFLOW") =>
       pFloat.integral = ULONG_MAX
  /\ (pc = "parseErr" /\ pErr.state = "PES_ERROR_OVERFLOW") =>
       pErr.result = UINT_MAX
  /\ (pc = "parseFmt" /\ pFmt.state = "PFMTS_ERROR_OVERFLOW") =>
       (pFmt.width = UINT_MAX \/ pFmt.precision = UINT_MAX)

C20_TerminalStatesIgnoreInput ==
  [][ /\ (pc = "parseFloat" /\ pFloat.state \in FloatTerminal) =>
           pFloat' = pFloat /\ pRet' = 0
      /\ (pc = "parseErr" /\ pErr.state \in ErrTerminal) =>
           pErr' = pErr /\ pRet' = 0
      /\ (pc = "parseFmt" /\ pFmt.state \in FmtTerminal) =>
           pFmt' = pFmt /\ pRet' = 0 ]_vars

\* C20 witness: after %1r stopped, parseFmt() was called again with '%'
C20_Witness ==
  /\ pc = "parseFmt"
  /\ fed = <<CH_PERCENT, Digit(1), CH_r>> /\ pArg = CH_PERCENT
  /\ pFmt.state = "PFMTS_STOP" /\ pFmt.width = 1 /\ pFmt.type = CH_r
  /\ pRet = 0

\* the context a parser is left with after the characters of str, fed one by one
RECURSIVE RunFloat(_, _)
RunFloat(ctx, str) ==
  IF str = <<>> THEN ctx ELSE RunFloat(parseFloat(ctx, Head(str)).ctx, Tail(str))

RECURSIVE RunErr(_, _)
RunErr(ctx, str) ==
  IF str = <<>> THEN ctx ELSE RunErr(parseErr(ctx, Head(str)).ctx, Tail(str))

RECURSIVE RunFmt(_, _)
RunFmt(ctx, str) ==
  IF str = <<>> THEN ctx ELSE RunFmt(parseFmt(ctx, Head(str)).ctx, Tail(str))

\* C21 as stated: once the state of a used context is set back to START, the
\* state and the result after any characters are those the same characters
\* give on a context that never parsed anything.
C21_Original ==
  (before # <<>> /\ fed # <<>>) =>
    /\ pc = "parseFloat" =>
         /\ pFloat.state = RunFloat(ZeroFloatCtx, fed).state
         /\ pFloat.result = RunFloat(ZeroFloatCtx, fed).result
    /\ pc = "parseErr" =>
         /\ pErr.state = RunErr(ZeroErrCtx, fed).state
         /\ pErr.result = RunErr(ZeroErrCtx, fed).result
    /\ pc = "parseFmt" =>
         /\ pFmt.state = RunFmt(ZeroFmtCtx, fed).state
         /\ pFmt.state = "PFMTS_STOP" => pFmt = RunFmt(ZeroFmtCtx, fed)

\* C21 witness: after "-<TAB>" the state is set to START and ".1<TAB>" stops
\* with the sign of the first token: -0.1, where a zeroed context gives 0
C21_Witness ==
  /\ pc = "parseFloat"
  /\ before = <<CH_MINUS, CH_TAB>>
  /\ fed = <<CH_DOT, Digit(1), CH_TAB>>
  /\ pFloat.state = "PFS_STOP"
  /\ pFloat.result = 0 - Scale \div 10
  /\ RunFloat(ZeroFloatCtx, fed).result = 0

\* the four literal characters of an error token, and what may follow the ':'
ErrLiteral == <<CH_E, CH_r, CH_r, CH_COLON>>
IsBlank(c) == c = CH_SPACE \/ c = CH_TAB
\* index of the first character after the ':' that is no blank (Len + 1: none)
ErrNumStart(str) ==
  CHOOSE k \in 5..(Len(str) + 1) :
    /\ \A j \in 5..(k - 1) : IsBlank(str[j])
    /\ k = Len(str) + 1 \/ ~IsBlank(str[k])
\* Err: blanks digits, still without the character that ends the digits
IsErrPrefix(str) ==
  IF Len(str) <= 4 THEN str = SubSeq(ErrLiteral, 1, Len(str))
  ELSE /\ SubSeq(str, 1, 4) = ErrLiteral
       /\ \A j \in ErrNumStart(str)..Len(str) : IsDigit(str[j])
\* Err: blanks, one or more digits, and one character that is no digit
IsErrForm(str) ==
  /\ Len(str) >= 6
  /\ SubSeq(str, 1, 4) = ErrLiteral
  /\ ErrNumStart(str) <= Len(str) - 1
  /\ \A j \in ErrNumStart(str)..(Len(str) - 1) : IsDigit(str[j])
  /\ ~IsDigit(str[Len(str)])
\* the digit run of such an input, with or without the character that ends it
ErrRun(str) ==
  SubSeq(str, ErrNumStart(str),
         IF IsDigit(str[Len(str)]) THEN Len(str) ELSE Len(str) - 1)

\* C22 as stated: every input Err: blanks digits goes on until the character
\* that ends the digits and then stops with the decimal value of the digits;
\* every other input ends in ERROR_TOKEN.
C22_Original ==
  (pc = "parseErr" /\ fed # <<>>) =>
    /\ IsErrPrefix(fed) => pErr.state \notin ErrTerminal
    /\ IsErrForm(fed) <=> pErr.state = "PES_STOP"
    /\ pErr.state = "PES_STOP" => pErr.result = DecValue(ErrRun(fed))
    /\ (~IsErrPrefix(fed) /\ ~IsErrForm(fed)) => pErr.state = "PES_ERROR_TOKEN"

\* C22: parseErr stops only on Err: blanks digits non-digit, and does stop there
\* with the decimal value of the digits when that value is at most UINT_MAX;
\* digits beyond UINT_MAX end in ERROR_OVERFLOW with result UINT_MAX or are
\* accumulated modulo UINT_MAX + 1; every input that is not of the form, nor a
\* beginning of it, ends in ERROR_TOKEN, and no other input does.
C22_ErrGrammar ==
  (pc = "parseErr" /\ fed # <<>>) =>
    /\ pErr.state = "PES_STOP" => IsErrForm(fed)
    /\ (IsErrForm(fed) /\ DecValue(ErrRun(fed)) <= UINT_MAX) =>
         pErr.state = "PES_STOP" /\ pErr.result = DecValue(ErrRun(fed))
    /\ IsErrForm(fed) =>
         pErr.state = "PES_STOP"
           /\ pErr.result = DecValue(ErrRun(fed)) % (UINT_MAX + 1)
    /\ pErr.state = "PES_ERROR_TOKEN" <=> (~IsErrPrefix(fed) /\ ~IsErrForm(fed))
    /\ pErr.state = "PES_ERROR_OVERFLOW" =>
         /\ IsErrPrefix(fed) /\ Len(fed) > 4
         /\ DecValue(ErrRun(fed)) > UINT_MAX
         /\ pErr.result = UINT_MAX
    /\ (IsErrPrefix(fed) /\ (Len(fed) > 4 => DecValue(ErrRun(fed)) <= UINT_MAX)) =>
         pErr.state \notin ErrTerminal

\* C22 witness: "Err:<TAB>3<LF>" stopped with result 3
C22_Witness ==
  /\ pc = "parseErr"
  /\ fed = <<CH_E, CH_r, CH_r, CH_COLON, CH_TAB, Digit(3), CH_LF>>
  /\ pErr.state = "PES_STOP" /\ pErr.result = 3

\* a call of parseFmt(ctx, c) that hands c to the label onType
InTypePosition(ctx, c) ==
  \/ ctx.state = "PFMTS_FLAG" /\ c \notin FmtFlagChars /\ c # CH_DOT /\ ~IsDigit(c)
  \/ ctx.state = "PFMTS_WIDTH" /\ ~IsDigit(c) /\ c # CH_DOT
  \/ ctx.state \in {"PFMTS_PRECISION_START", "PFMTS_PRECISION"} /\ ~IsDigit(c)
\* the state a type character leads to
TypeOutcome(c) ==
  IF c = CH_PERCENT \/ c \in FmtTypeLetters THEN "PFMTS_STOP"
  ELSE IF c = CH_v THEN "PFMTS_SUBTYPE" ELSE "PFMTS_ERROR_TOKEN"

\* C23: the character that ends the flags, a width or a precision is read as the
\* type character by the call that consumes it ('.' after flags or a width
\* starts the precision instead), with flags, width and precision kept;
\* %5d stops after three characters with width 5 and type 'd'.
C23_EndCharIsType ==
  [][ pc = "parseFmt" =>
        /\ InTypePosition(pFmt, pArg') =>
              /\ pFmt'.type = pArg' /\ pFmt'.state = TypeOutcome(pArg')
              /\ pFmt'.flags = pFmt.flags /\ pFmt'.width = pFmt.width
              /\ pFmt'.precision = pFmt.precision
              /\ fed' = Append(fed, pArg')
        /\ (pFmt.state \in {"PFMTS_FLAG", "PFMTS_WIDTH"} /\ pArg' = CH_DOT) =>
              /\ pFmt'.state = "PFMTS_PRECISION_START" /\ pRet' = 1
              /\ pFmt'.width = pFmt.width /\ pFmt'.type = 0
        /\ RunFmt(ZeroFmtCtx, <<CH_PERCENT, Digit(5), CH_d>>) =
              [state |-> "PFMTS_STOP", flags |-> {}, width |-> 5, precision |-> 0,
               type |-> CH_d, subType |-> 0] ]_vars

\* C23 witness: %3r stopped after three characters with width 3 and type 'r'
C23_Witness ==
  /\ pc = "parseFmt"
  /\ fed = <<CH_PERCENT, Digit(3), CH_r>> /\ pArg = CH_r
  /\ pFmt.state = "PFMTS_STOP" /\ pFmt.width = 3 /\ pFmt.type = CH_r

\* C24: parseFmt enters STOP only on '%' or a letter of the list in type
\* position, or on C, F or H directly after the type 'v'; every such character
\* does stop; any other character in type or subtype position, and any
\* character but '%' at START, gives ERROR_TOKEN.
C24_ClosedTypeAlphabet ==
  [][ (pc = "parseFmt" /\ pFmt.state \notin FmtTerminal) =>
        /\ pFmt'.state = "PFMTS_STOP" <=>
              \/ InTypePosition(pFmt, pArg')
                   /\ (pArg' = CH_PERCENT \/ pArg' \in FmtTypeLetters)
              \/ pFmt.state = "PFMTS_SUBTYPE" /\ pFmt.type = CH_v
                   /\ pArg' \in {CH_C, CH_F, CH_H}
        /\ pFmt'.state = "PFMTS_SUBTYPE" <=>
              (InTypePosition(pFmt, pArg') /\ pArg' = CH_v)
        /\ pFmt'.state = "PFMTS_ERROR_TOKEN" <=>
              \/ pFmt.state = "PFMTS_START" /\ pArg' # CH_PERCENT
              \/ InTypePosition(pFmt, pArg') /\ pArg' # CH_v /\ pArg' # CH_PERCENT
                   /\ pArg' \notin FmtTypeLetters
              \/ pFmt.state = "PFMTS_SUBTYPE" /\ pArg' \notin {CH_C, CH_F, CH_H}
        /\ pFmt'.state = "PFMTS_STOP" => pRet' = 0 ]_vars

\* C24 witness: %vr ended in ERROR_TOKEN at the subtype 'r'
C24_Witness ==
  /\ pc = "parseFmt"
  /\ fed = <<CH_PERCENT, CH_v, CH_r>>
  /\ pFmt.state = "PFMTS_ERROR_TOKEN" /\ pFmt.type = CH_v /\ pFmt.subType = CH_r

\* the character printData() looks at in its next iteration
NextChar == fmt[ptr + 1]
\* the context parseFmt() leaves when printData() hands it the next character
Parsed == parseFmt(pFmt, NextChar).ctx
\* the next iteration hands its character to parseFmt()
InDirective == pFmt.state # "PFMTS_START" \/ NextChar = CH_PERCENT

\* C25: when parseFmt() ends a directive in ERROR_TOKEN or ERROR_OVERFLOW,
\* printData() returns -1 in that iteration, writes nothing to fd, and reports
\* as offset the index of the character plus one, with the first offset
\* characters of the format string before the mark and the others behind it;
\* %vZ\n fails with offset 3.
C25_RejectedDirectiveIsFatal ==
  [][ (pc = "scan" /\ ptr < Len(fmt) /\ InDirective
         /\ Parsed.state \in {"PFMTS_ERROR_TOKEN", "PFMTS_ERROR_OVERFLOW"}) =>
        /\ pc' = "returned" /\ ret' = 0 - 1
        /\ fout' = fout
        /\ Len(ferr') = 1
        /\ ferr'[1].msg = (IF Parsed.state = "PFMTS_ERROR_OVERFLOW"
                             THEN "MSGT_ERR_FMT_OVERFLOW" ELSE "MSGT_ERR_FMT_SYNTAX")
        /\ ferr'[1].arg.offset = ptr + 1
        /\ Len(ferr'[1].arg.prefix) = ptr + 1
        /\ ferr'[1].arg.prefix \o ferr'[1].arg.rest = fmt
        /\ fmt = <<CH_PERCENT, CH_v, CH_Z, CH_BACKSLASH, CH_n>> =>
             ferr'[1].arg.offset = 3 ]_vars

\* C25 witness: %vZ\n was given up at the Z with offset 3, prefix %vZ, rest \n
C25_Witness ==
  /\ pc = "returned" /\ ret = 0 - 1
  /\ fmt = <<CH_PERCENT, CH_v, CH_Z, CH_BACKSLASH, CH_n>>
  /\ pFmt.state = "PFMTS_ERROR_TOKEN"
  /\ ferr = <<Msg("MSGT_ERR_FMT_SYNTAX",
                  [offset |-> 3, prefix |-> <<CH_PERCENT, CH_v, CH_Z>>,
                   rest |-> <<CH_BACKSLASH, CH_n>>])>>
  /\ fout = <<>>

\* the next iteration completes a directive of type v with subtype C, F or H
ValueStops ==
  /\ pc = "scan" /\ ptr < Len(fmt)
  /\ pFmt.state = "PFMTS_SUBTYPE" /\ NextChar \in {CH_C, CH_F, CH_H}
\* the text of that directive up to its v, followed by the type f
ValueFormat == Append(SubSeq(fmt, start + 1, ptr - 1), CH_f)
\* the number the subtype stands for
ValueOf(sub) ==
  CASE sub = CH_C -> temp
    [] sub = CH_F -> (temp * 18) \div 10 + 32 * Scale
    [] sub = CH_H -> rh
\* "20.0", "50.0" and "68.0"
Txt200 == <<Digit(2), Digit(0), CH_DOT, Digit(0)>>
Txt500 == <<Digit(5), Digit(0), CH_DOT, Digit(0)>>
Txt680 == <<Digit(6), Digit(8), CH_DOT, Digit(0)>>

\* C26 as stated: every directive that stops with type v writes one number,
\* formatted by the text of the directive up to the v with the type f, from
\* the temperature (C), temperature * 1.8 + 32 (F) or the humidity (H).
C26_Original ==
  [][ ValueStops =>
        /\ pc' = "scan"
        /\ fout' = fout \o Printf(ValueFormat, ValueOf(NextChar)) ]_vars

\* C26 where the subtype character lies before offset SizeofBuf: the number is
\* written as stated, the format has the flags, the width and the precision of
\* the directive, %.1vC\t%.1vH\n renders 20.0 and 50.0 as 20.0<TAB>50.0<LF>
\* and %.1vF\n renders 20.0 as 68.0<LF>; from offset SizeofBuf on the
\* directive fails with the length error instead.
C26_ValueFormatted ==
  /\ [][ ValueStops =>
           IF ptr < SizeofBuf
             THEN /\ pc' = "scan"
                  /\ fout' = fout \o Printf(ValueFormat, ValueOf(NextChar))
                  /\ PfFlags(ValueFormat) =
                       {CH_MINUS : x \in pFmt.flags \cap {"PFMTF_LEFT_ALIGN"}}
                         \cup {CH_PLUS : x \in pFmt.flags \cap {"PFMTF_SIGN"}}
                         \cup {CH_0 : x \in pFmt.flags \cap {"PFMTF_ZERO"}}
                         \cup {CH_SPACE : x \in pFmt.flags \cap {"PFMTF_BLANK"}}
                         \cup {CH_HASH : x \in pFmt.flags \cap {"PFMTF_HASHTAG"}}
                  /\ PfWidth(ValueFormat) % (UINT_MAX + 1) = pFmt.width
                  /\ PfHasPrec(ValueFormat) =>
                       PfPrec(ValueFormat) % (UINT_MAX + 1) = pFmt.precision
                  /\ ~PfHasPrec(ValueFormat) => pFmt.precision = 0
             ELSE /\ pc' = "returned" /\ ret' = 0 - 1 /\ fout' = fout
                  /\ ferr'[1].msg = "MSGT_ERR_FMT_LENGTH" ]_vars
  /\ [](pc = "returned" /\ temp = 20 * Scale /\ rh = 50 * Scale =>
          /\ fmt = <<CH_PERCENT, CH_DOT, Digit(1), CH_v, CH_C, CH_BACKSLASH, CH_t,
                     CH_PERCENT, CH_DOT, Digit(1), CH_v, CH_H, CH_BACKSLASH, CH_n>>
               => fout = Txt200 \o <<CH_TAB>> \o Txt500 \o <<CH_LF>>
          /\ fmt = <<CH_PERCENT, CH_DOT, Digit(1), CH_v, CH_F, CH_BACKSLASH, CH_n>>
               => fout = Txt680 \o <<CH_LF>>)

\* C26 witness: %vC after SizeofBuf - 2 literal characters, its C at offset
\* SizeofBuf, failed with the length error after the literal was written
C26_Witness ==
  /\ pc = "returned" /\ ret = 0 - 1
  /\ fmt = Repeat(CH_COLON, SizeofBuf - 2) \o <<CH_PERCENT, CH_v, CH_C, CH_COLON>>
  /\ ptr = SizeofBuf
  /\ fout = Repeat(CH_COLON, SizeofBuf - 2)
  /\ ferr[1].msg = "MSGT_ERR_FMT_LENGTH"

\* the literal characters printData() has passed and not written yet
Pending == SubSeq(fmt, start + 1, ptr)

\* C27: of the two characters %%, the first writes nothing but the literal that
\* is pending before it, and the second writes one '%' and ends the directive,
\* whatever came before the pair; %%\n renders as %<LF>.
C27_PercentPercent ==
  /\ [][ (pc = "scan" /\ ptr < Len(fmt) /\ NextChar = CH_PERCENT) =>
           /\ (pFmt.state = "PFMTS_START" /\ ptr + 1 < Len(fmt)
                 /\ fmt[ptr + 2] = CH_PERCENT) =>
                /\ pc' = "scan" /\ fout' = fout \o Pending
                /\ start' = ptr /\ pFmt'.state = "PFMTS_FLAG"
           /\ (pFmt.state = "PFMTS_FLAG" /\ ptr = start + 1) =>
                /\ pc' = "scan" /\ fout' = fout \o <<CH_PERCENT>>
                /\ start' = ptr + 1 /\ pFmt' = ZeroFmtCtx /\ esc' = 0 ]_vars
  /\ [](pc = "returned" /\ fmt = <<CH_PERCENT, CH_PERCENT, CH_BACKSLASH, CH_n>>
          => ret = 2 /\ fout = <<CH_PERCENT, CH_LF>>)

\* C27 witness: %C%% rendered the calendar field and then one '%'
C27_Witness ==
  /\ pc = "returned" /\ ret = 3
  /\ fmt = <<CH_PERCENT, CH_C, CH_PERCENT, CH_PERCENT>>
  /\ fout = <<0, CH_C, CH_PERCENT>>
  /\ trace[2].kind = "percent" /\ trace[2].from = 2 /\ trace[2].to = 3

\* the next iteration completes a directive that is neither a sensor value nor %%
CalendarStops ==
  /\ pc = "scan" /\ ptr < Len(fmt) /\ pFmt.state # "PFMTS_START"
  /\ Parsed.state = "PFMTS_STOP" /\ Parsed.type # CH_v
  /\ ~(NextChar = CH_PERCENT /\ ptr = start + 1)
\* that directive, from its '%' to its type character
Span == SubSeq(fmt, start + 1, ptr + 1)
\* the last write of the next state was the text _tcsftime() made of Span
HandedToTime ==
  /\ pc' = "scan" /\ fout' = fout \o TimeText(Span)
  /\ Len(trace') = Len(trace) + 1
  /\ trace'[Len(trace')].kind = "time" /\ trace'[Len(trace')].call = Span

\* C28 as stated: every such directive, with whatever flags, width and
\* precision it has, is handed to _tcsftime() from its '%' to its type
\* character, and rendering fails only if _tcsftime() gives no text.
C28_Original ==
  [][ CalendarStops =>
        IF TimeText(Span) = <<>>
          THEN pc' = "returned" /\ ret' = 0 - 1
          ELSE HandedToTime ]_vars

\* what printData() does with such a directive: it is handed to _tcsftime()
\* only when its type character directly follows the '%' or a '#', and the
\* copy fits tFmt only for %X and %#X; a longer one ending in #X is written
\* past the end of tFmt; every other one is a syntax error at its type character.
C28_CalendarDirective ==
  [][ CalendarStops =>
        IF fmt[ptr] \in {CH_PERCENT, CH_HASH}
          THEN IF Len(Span) < SizeofTFmt
                 THEN IF TimeText(Span) = <<>>
                        THEN pc' = "returned" /\ ret' = 0 - 1
                        ELSE HandedToTime
                 ELSE pc' \in {"scan", "returned", "crashed"}
          ELSE /\ pc' = "returned" /\ ret' = 0 - 1 /\ fout' = fout
               /\ trace' = trace
               /\ ferr'[1].msg = "MSGT_ERR_FMT_SYNTAX"
               /\ ferr'[1].arg.offset = ptr + 1 ]_vars

\* C28 witness: :%-d wrote the literal and failed at the d without a call of
\* _tcsftime()
C28_Witness ==
  /\ pc = "returned" /\ ret = 0 - 1
  /\ fmt = <<CH_COLON, CH_PERCENT, CH_MINUS, CH_d>>
  /\ pFmt.state = "PFMTS_STOP" /\ pFmt.type = CH_d
  /\ pFmt.flags = {"PFMTF_LEFT_ALIGN"}
  /\ fout = <<CH_COLON>> /\ Len(trace) = 1
  /\ ferr[1].msg = "MSGT_ERR_FMT_SYNTAX" /\ ferr[1].arg.offset = 4

\* the characters that make an escape of a backslash, and what each stands for
EscLetters == {CH_BACKSLASH, CH_a, CH_b, CH_e, CH_f, CH_n, CH_r, CH_t}
EscMeaning(c) ==
  CASE c = CH_BACKSLASH -> 92
    [] c = CH_a -> 7
    [] c = CH_b -> 8
    [] c = CH_e -> 27
    [] c = CH_f -> 12
    [] c = CH_n -> 10
    [] c = CH_r -> 13
    [] c = CH_t -> 9

\* C29: a backslash met outside a directive writes the pending literal and
\* nothing else; if the next character is one of \ a b e f n r t, that
\* character writes the one character it stands for (92, 7, 8, 27, 12, 10, 13,
\* 9) and the literal run starts anew behind it; an escape is pending only
\* right behind such a backslash.
C29_EscapeSequences ==
  /\ [](esc # 0 =>
          /\ esc = 1 /\ ptr >= 1 /\ fmt[ptr] = CH_BACKSLASH
          /\ start = ptr - 1 /\ pFmt.state = "PFMTS_START")
  /\ [][ (pc = "scan" /\ ptr < Len(fmt)) =>
           /\ (pFmt.state = "PFMTS_START" /\ esc = 0 /\ NextChar = CH_BACKSLASH) =>
                /\ pc' = "scan" /\ ptr' = ptr + 1
                /\ fout' = fout \o Pending
                /\ esc' = 1 /\ start' = ptr /\ pFmt' = pFmt
           /\ (esc # 0 /\ NextChar \in EscLetters) =>
                /\ pc' = "scan" /\ ptr' = ptr + 1
                /\ fout' = fout \o <<EscMeaning(NextChar)>>
                /\ res' = res + 1
                /\ esc' = 0 /\ start' = ptr + 1 /\ pFmt' = pFmt ]_vars

\* C29 witness: :\n: rendered as :<LF>:
C29_Witness ==
  /\ pc = "returned" /\ ret = 3
  /\ fmt = <<CH_COLON, CH_BACKSLASH, CH_n, CH_COLON>>
  /\ fout = <<CH_COLON, CH_LF, CH_COLON>>
  /\ Len(trace) = 3 /\ trace[2].kind = "escape"
  /\ trace[2].from = 1 /\ trace[2].to = 2

\* everything the writes noted in tr put out, in their order
RECURSIVE Flat(_)
Flat(tr) == IF tr = <<>> THEN <<>> ELSE Head(tr).out \o Flat(Tail(tr))
\* the offset behind the characters the writes so far were made from
Covered == IF trace = <<>> THEN 0 ELSE trace[Len(trace)].to + 1

\* C30: the writes of printData() are made from adjoining pieces of the format
\* string in its order, beginning at offset 0, each piece a literal run, an
\* escape pair or a directive; a literal run is written unchanged, holds no
\* '%' (but the one of a directive the format string ends in) and no escape
\* pair; what is not written yet is the pending literal run from start on; a
\* render that returns a count has written every piece up to the end of the
\* format string, and the count is the number of characters written.
C30_LiteralsOnceInOrder ==
  pc \in {"scan", "returned"} =>
    /\ fout = Flat(trace)
    /\ \A k \in 1..Len(trace) :
         LET R == trace[k] IN
           /\ R.from = (IF k = 1 THEN 0 ELSE trace[k - 1].to + 1)
           /\ R.from <= R.to /\ R.to < Len(fmt)
           /\ R.kind = "literal" =>
                /\ R.out = SubSeq(fmt, R.from + 1, R.to + 1)
                /\ \A j \in R.from..R.to :
                     /\ fmt[j + 1] = CH_PERCENT =>
                          /\ pc = "returned" /\ k = Len(trace)
                          /\ pFmt.state # "PFMTS_START" /\ j = start
                     /\ fmt[j + 1] = CH_BACKSLASH =>
                          j + 1 = Len(fmt) \/ fmt[j + 2] \notin EscLetters
           /\ R.kind = "escape" =>
                /\ R.to = R.from + 1 /\ fmt[R.from + 1] = CH_BACKSLASH
                /\ fmt[R.to + 1] \in EscLetters /\ Len(R.out) = 1
           /\ R.kind \in {"value", "time", "percent"} =>
                /\ fmt[R.from + 1] = CH_PERCENT /\ R.from < R.to
                /\ \A j \in (R.from + 1)..(R.to - 1) : fmt[j + 1] # CH_BACKSLASH
    /\ pc = "scan" => (Covered = start /\ start <= ptr)
    /\ pc = "scan" =>
         \A j \in start..(ptr - 1) :
           fmt[j + 1] = CH_PERCENT => (j = start /\ pFmt.state # "PFMTS_START")
    /\ (pc = "returned" /\ ret >= 0) =>
         /\ Covered = Len(fmt)
         /\ ret = Len(fout)

\* C30 witness: :%C: wrote the first ':', then the calendar field, then the
\* second ':'
C30_Witness ==
  /\ pc = "returned" /\ ret = 4
  /\ fmt = <<CH_COLON, CH_PERCENT, CH_C, CH_COLON>>
  /\ fout = <<CH_COLON, 0, CH_C, CH_COLON>>
  /\ Len(trace) = 3
  /\ trace[1].kind = "literal" /\ trace[2].kind = "time" /\ trace[3].kind = "literal"
  /\ trace[3].from = 3 /\ trace[3].to = 3

\* an argument of -i that is written as a decimal number below zero, as zero, or
\* as a number followed by something else
MinusNumber(s) ==
  /\ Len(s) >= 2 /\ s[1] = CH_MINUS
  /\ \A k \in 2..Len(s) : IsDigit(s[k])
  /\ \E k \in 2..Len(s) : s[k] # CH_0
ZeroNumber(s) ==
  /\ s # <<>>
  /\ \A k \in 1..Len(s) : s[k] = CH_0
TrailingText(s) ==
  /\ s # <<>> /\ IsDigit(s[1])
  /\ \E k \in 2..Len(s) : ~IsDigit(s[k])
\* the option -i was handled and its argument refused
IntervalRejected ==
  \/ pc = "onError" /\ ferr = <<Msg("MSGT_ERR_OPT_BAD_INTERVAL", optarg)>>
  \/ pc = "exited" /\ ret = "EXIT_FAILURE"

\* C31 as claimed: once -i was handled the interval is at least 1, and an
\* argument that is a negative number, zero, or a number with text behind it was
\* refused with the 'Invalid interval value' error, so that processData() is not
\* entered with it.
C31_Original ==
  pc # "getopt" =>
    /\ intvl >= 1 \/ pc \in {"onError", "exited"}
    /\ (MinusNumber(optarg) \/ ZeroNumber(optarg) \/ TrailingText(optarg)) =>
         IntervalRejected

\* C31 witness: processData() was entered after -i -1, with the interval SIZE_MAX
C31_Witness ==
  /\ pc = "while"
  /\ optarg = <<CH_MINUS, Digit(1)>> /\ strNum = 2
  /\ intvl = SIZE_MAX

\* C32: between the bytes of the loop no parser is in a terminal state: the
\* context of parseFloat() is in START, INTEGRAL, FRACTION or REMAINING and the
\* context of parseErr() in START, E, Er, Err, INTEGRAL_START or INTEGRAL; so
\* every byte is fed to parsers that are not in STOP or in an error state, and
\* every byte leaves them so.
C32_NoTerminalStateBetweenBytes ==
  /\ [](/\ pFloat.state \in {"PFS_START", "PFS_INTEGRAL", "PFS_FRACTION", "PFS_REMAINING"}
        /\ pErr.state \in {"PES_START", "PES_E__", "PES_ER_", "PES_ERR",
                           "PES_INTEGRAL_START", "PES_INTEGRAL"})
  /\ [][ByteStep =>
          /\ pFloat.state \notin FloatTerminal /\ pErr.state \notin ErrTerminal
          /\ pFloat'.state \notin FloatTerminal /\ pErr'.state \notin ErrTerminal]_vars

\* C32 witness: the byte that ended the token 7<TAB> took parseFloat() to STOP
\* (the temperature is stored) and its context is at START again
C32_Witness ==
  /\ pc = "for"
  /\ chunk = Tok(<<Digit(7)>>, CH_TAB) /\ wire = <<>>
  /\ pState = "ST_RH" /\ temp = ToFloat(7)
  /\ pFloat = ZeroFloatCtx /\ pErr = ZeroErrCtx

\* C33 as claimed: parseFloat() is in STOP only when it has consumed at least one
\* decimal digit since START.
C33_Original ==
  (pc = "parseFloat" /\ pFloat.state = "PFS_STOP") =>
    \E k \in 1..Len(fed) : IsDigit(fed[k])

\* C33 witness: '-' and a terminator took parseFloat() to STOP with the value 0
C33_Witness ==
  /\ pc = "parseFloat"
  /\ fed = <<CH_MINUS, CH_TAB>>
  /\ pFloat.state = "PFS_STOP" /\ pFloat.result = 0 /\ pRet = 0

\* the digits of the integral part of a float token: those behind the optional '-'
IntegralDigits(str) ==
  LET d == IF str # <<>> /\ str[1] = CH_MINUS THEN 1 ELSE 0
  IN  SubSeq(str, d + 1, d + RunLen(DigitChars, str, d))
\* the digits of the precision of a complete directive (none: no '.')
PrecisionDigits(str) ==
  IF PfHasPrec(str) THEN SubSeq(str, PfWidthEnd(str) + 1, PfPrecEnd(str) - 1) ELSE <<>>

\* C34 as claimed: in STOP every accumulator holds the decimal value of the digits
\* consumed for it: parseFloat() in integral, parseErr() in result, parseFmt() in
\* width and precision.
C34_Original ==
  /\ (pc = "parseFloat" /\ pFloat.state = "PFS_STOP") =>
       pFloat.integral = DecValue(IntegralDigits(fed))
  /\ (pc = "parseErr" /\ pErr.state = "PES_STOP") =>
       pErr.result = DecValue(ErrRun(fed))
  /\ (pc = "parseFmt" /\ pFmt.state = "PFMTS_STOP") =>
       /\ pFmt.width = PfWidth(fed)
       /\ pFmt.precision = DecValue(PrecisionDigits(fed))

\* C34 witness: 311 and its terminator stopped parseFloat() with the value 55
C34_Witness ==
  /\ pc = "parseFloat"
  /\ fed = <<Digit(3), Digit(1), Digit(1), CH_TAB>>
  /\ pFloat.state = "PFS_STOP"
  /\ pFloat.integral = 55 /\ pFloat.result = ToFloat(55)

\* the next iteration copies Span into tFmt: the directive is complete, is no
\* sensor value and no %%, and its type character follows a '%' or a '#'
CopiedToTFmt == CalendarStops /\ last \in {CH_PERCENT, CH_HASH}

\* C35 as claimed: whenever a directive is copied into tFmt, the directive and
\* the NUL behind it fit the SizeofTFmt elements of tFmt, and the copy writes
\* nothing past its end.
C35_Original ==
  [][CopiedToTFmt => (Len(Span) + 1 <= SizeofTFmt /\ pc' # "crashed")]_vars

\* C35 witness: the copy of %##C has written the NUL behind the end of tFmt
C35_Witness ==
  /\ pc = "crashed"
  /\ fmt = <<CH_PERCENT, CH_HASH, CH_HASH, CH_C>>
  /\ start = 0 /\ ptr = 3 /\ last = CH_HASH
  /\ pFmt.state = "PFMTS_STOP" /\ pFmt.type = CH_C

\* the elements of buf the directive that is about to stop needs: its text up to
\* the v, the type f and the NUL
BufNeeded == (ptr - 1 - start) + 2

\* C36 as claimed: a directive of type v with subtype C, F or H fails with the
\* 'format code length error' if and only if its own text does not fit buf,
\* wherever in the format string it starts.
C36_Original ==
  [][ ValueStops =>
        ((ferr' # <<>> /\ ferr'[1].msg = "MSGT_ERR_FMT_LENGTH")
           <=> BufNeeded > SizeofBuf) ]_vars

\* C36 witness: a %vC that needs 3 elements of buf and starts at offset
\* SizeofBuf - 2 failed with the length error
C36_Witness ==
  /\ pc = "returned" /\ ret = 0 - 1
  /\ start = SizeofBuf - 2 /\ ptr = start + 2
  /\ SubSeq(fmt, start + 1, ptr + 1) = <<CH_PERCENT, CH_v, CH_C>>
  /\ pFmt.state = "PFMTS_STOP" /\ pFmt.subType = CH_C
  /\ ferr # <<>> /\ ferr[1].msg = "MSGT_ERR_FMT_LENGTH"

\* the byte of this step takes parseFloat() to STOP, so that pErr is zeroed
FloatStops == ByteStep /\ parseFloat(pFloat, LastByte').ctx.state = "PFS_STOP"

\* C37 as claimed: whenever a byte takes parseFloat() to STOP, the context of
\* parseErr() is at START after that byte was fed to it, so that zeroing it
\* drops no error token in progress.
C37_Original ==
  [][FloatStops => ErrStep(Locals, LastByte').pErr.state = "PES_START"]_vars

\* C37 witness: the byte E ended the token 7 (the temperature is stored) and
\* parseErr(), which had taken the E as the start of Err:, is at START again
C37_Witness ==
  /\ pc = "for" /\ LastByte = CH_E
  /\ pState = "ST_RH" /\ temp = ToFloat(7)
  /\ pFloat = ZeroFloatCtx /\ pErr = ZeroErrCtx
  /\ parseErr(ZeroErrCtx, CH_E).ctx.state = "PES_E__"

\* what the byte of this step is and does
IsLineEnd(c) == c = CH_CR \/ c = CH_LF
FloatFails ==
  ByteStep /\ parseFloat(pFloat, LastByte').ctx.state
                \in {"PFS_ERROR_TOKEN", "PFS_ERROR_OVERFLOW"}
\* the byte of this step neither ends a line, nor ends or breaks a float token
StaysInField == ~IsLineEnd(LastByte') /\ ~FloatStops /\ ~FloatFails

\* C38: the field cycle counts the float tokens completed on the line in
\* progress.  A record is accepted only by the byte that ends a token while the
\* cycle is at the checksum; the cycle is at the humidity only since a token
\* ended at the temperature, and at the checksum only since a token ended at
\* the humidity, in both cases by a byte that is no CR or LF and with no CR, LF
\* or parser error since; a CR or LF, a parser error and the end of the checksum
\* token put the cycle back to the temperature, and a CR or LF puts parseFloat()
\* to START.  So the three tokens of an accepted record lie on one line and its
\* temperature is the first token completed since the last of those events.
C38_RecordOnOneLine ==
  /\ [][(ByteStep /\ valueCount' # valueCount) =>
          (valueCount' = valueCount + 1 /\ pState = "ST_SUM" /\ FloatStops)]_vars
  /\ [][ByteStep =>
          /\ pState' = "ST_RH" =>
               \/ pState = "ST_TEMP" /\ FloatStops /\ ~IsLineEnd(LastByte')
                    /\ temp' = parseFloat(pFloat, LastByte').ctx.result
               \/ pState = "ST_RH" /\ StaysInField /\ temp' = temp
          /\ pState' = "ST_SUM" =>
               \/ pState = "ST_RH" /\ FloatStops /\ ~IsLineEnd(LastByte')
                    /\ rh' = parseFloat(pFloat, LastByte').ctx.result /\ temp' = temp
               \/ pState = "ST_SUM" /\ StaysInField /\ temp' = temp /\ rh' = rh
          /\ (IsLineEnd(LastByte') \/ FloatFails \/ (pState = "ST_SUM" /\ FloatStops))
               => pState' = "ST_TEMP"
          /\ IsLineEnd(LastByte') => pFloat' = ZeroFloatCtx]_vars
  /\ [][~ByteStep => UNCHANGED <<pState, temp, rh, pFloat>>]_vars

\* C38 witness: the humidity token of a record was ended by a LF, so that the
\* cycle is back at the temperature with the humidity stored and nothing accepted
C38_Witness ==
  /\ pc = "for" /\ chunk = Tok(<<Digit(7)>>, CH_LF) /\ wire = <<>>
  /\ temp = ToFloat(7) /\ rh = ToFloat(7)
  /\ pState = "ST_TEMP" /\ pFloat = ZeroFloatCtx /\ valueCount = 0

\* the format string from offset k on is a '%' followed by nothing but flags, a
\* width, a precision and a v, in this order and each of them optional
UnfinishedFrom(k) ==
  LET f == k + 1 + RunLen(FmtFlagChars, fmt, k + 1)
      w == f + RunLen(DigitChars, fmt, f)
      d == IF w < Len(fmt) /\ fmt[w + 1] = CH_DOT
             THEN w + 1 + RunLen(DigitChars, fmt, w + 1) ELSE w
      v == IF d < Len(fmt) /\ fmt[d + 1] = CH_v THEN d + 1 ELSE d
  IN  k < Len(fmt) /\ fmt[k + 1] = CH_PERCENT /\ v = Len(fmt)
\* printData() is in a directive that the format string ends in
InUnfinished ==
  /\ pc \in {"scan", "returned"}
  /\ pFmt.state # "PFMTS_START" /\ UnfinishedFrom(start)
\* printData() has returned a count after it wrote the directive as a literal
FlushedAsLiteral ==
  /\ ret = Len(fout) /\ trace # <<>>
  /\ trace[Len(trace)] =
       [kind |-> "literal", from |-> start, to |-> Len(fmt) - 1, call |-> <<>>,
        out |-> SubSeq(fmt, start + 1, Len(fmt))]

\* C39 as claimed: a format string that ends in the middle of a directive never
\* fails in that directive, and printData() returns after it has written the
\* text of the directive as a literal.
C39_Original ==
  InUnfinished =>
    /\ pFmt.state \notin FmtTerminal
    /\ pc = "returned" => FlushedAsLiteral

\* C39: a format string that ends in the middle of a directive fails in that
\* directive only with the overflow error of its width or precision; without
\* it printData() returns a count after it has written the text of the
\* directive as a literal.
C39_UnfinishedDirectiveFlushed ==
  InUnfinished =>
    IF pFmt.state \in FmtTerminal
      THEN /\ pFmt.state = "PFMTS_ERROR_OVERFLOW"
           /\ pc = "returned" /\ ret = 0 - 1
           /\ ferr # <<>> /\ ferr[1].msg = "MSGT_ERR_FMT_OVERFLOW"
           /\ IsDigit(fmt[ptr + 1])
      ELSE pc = "returned" => FlushedAsLiteral

\* C39 witness: :%1v was written as it is
C39_Witness ==
  /\ pc = "returned" /\ ret = 4
  /\ fmt = <<CH_COLON, CH_PERCENT, Digit(1), CH_v>>
  /\ fout = fmt /\ pFmt.state = "PFMTS_SUBTYPE"
  /\ Len(trace) = 2 /\ trace[2].from = 1 /\ trace[2].kind = "literal"

\* the characters that were written by the step
Written == SubSeq(fout', Len(fout) + 1, Len(fout'))

\* C40: the character behind a backslash that was met outside a directive, if
\* it is none of \ a b e f n r t, writes nothing and stays pending together with
\* the backslash, unless it is a '%': then the backslash is written as it is and
\* the '%' begins a directive.  A backslash that ends the format string is
\* written as it is.  What is pending is written unchanged by the next write
\* that is not an escape, before anything else.
C40_UnknownEscapeKept ==
  /\ [][ (pc = "scan" /\ ptr < Len(fmt) /\ esc # 0 /\ NextChar \notin EscLetters) =>
           /\ pc' = "scan" /\ ptr' = ptr + 1 /\ esc' = 0
           /\ IF NextChar = CH_PERCENT
                THEN /\ Written = <<CH_BACKSLASH>>
                     /\ start' = ptr /\ pFmt'.state = "PFMTS_FLAG"
                ELSE /\ Written = <<>>
                     /\ start' = ptr - 1 /\ pFmt' = pFmt
                     /\ SubSeq(fmt, start' + 1, ptr') = <<CH_BACKSLASH, NextChar>> ]_vars
  /\ [][ (pc = "scan" /\ ptr = Len(fmt) /\ esc # 0) =>
           /\ pc' = "returned" /\ ret' = res + 1
           /\ Written = <<CH_BACKSLASH>> ]_vars
  /\ [][ ( /\ pc = "scan" /\ pFmt.state = "PFMTS_START" /\ start < ptr
           /\ Written # <<>>
           /\ ~(esc # 0 /\ ptr < Len(fmt) /\ NextChar \in EscLetters) ) =>
           SubSeq(Written, 1, ptr - start) = Pending ]_vars

\* C40 witness: \:\ was written as it is
C40_Witness ==
  /\ pc = "returned" /\ ret = 3
  /\ fmt = <<CH_BACKSLASH, CH_COLON, CH_BACKSLASH>>
  /\ fout = fmt /\ esc = 1
  /\ Len(trace) = 2 /\ trace[1].out = <<CH_BACKSLASH, CH_COLON>>

====
